---- MODULE Spec2Model ----
(***************************************************************************)
(* Astronomy Explorer / Stars for Starlikers: the form-submit path, the    *)
(* request builder, the HTTP client and the response validator, in the     *)
(* four variants the repository carries:                                   *)
(*   "modern"        src/src/main.js (first class) + api.js                *)
(*   "constellation" constellation.js (ConstellationApp)                   *)
(*   "moon"          moon.js (MoonApp + MoonAPI)                           *)
(*   "legacy"        src/src/main.js (second class, inline fetch)          *)
(*                                                                         *)
(* JavaScript strings that the code parses are sequences of one-character  *)
(* strings; codes and messages that are only compared are TLA+ strings.    *)
(* A parsed number m / 10^s is the record [nan |-> FALSE, m |-> m, s |-> s]*)
(* with m not divisible by 10 unless s = 0.                                *)
(***************************************************************************)
EXTENDS Integers, Sequences, FiniteSets, TLC

\* ------------------------------------------------------------------------
\* Bounds
\* ------------------------------------------------------------------------
MaxSubmits == 2

\* ------------------------------------------------------------------------
\* JavaScript values
\* ------------------------------------------------------------------------
Undefined == "<undefined>"

Digits == {"0", "1", "2", "3", "4", "5", "6", "7", "8", "9"}

DigitVal(c) ==
    CASE c = "0" -> 0 [] c = "1" -> 1 [] c = "2" -> 2 [] c = "3" -> 3
      [] c = "4" -> 4 [] c = "5" -> 5 [] c = "6" -> 6 [] c = "7" -> 7
      [] c = "8" -> 8 [] c = "9" -> 9

DigitChar(d) ==
    CASE d = 0 -> "0" [] d = 1 -> "1" [] d = 2 -> "2" [] d = 3 -> "3"
      [] d = 4 -> "4" [] d = 5 -> "5" [] d = 6 -> "6" [] d = 7 -> "7"
      [] d = 8 -> "8" [] d = 9 -> "9"

NaN == [nan |-> TRUE, m |-> 0, s |-> 0]

isNaN(n) == n.nan

RECURSIVE Pow10(_)
Pow10(k) == IF k = 0 THEN 1 ELSE 10 * Pow10(k - 1)

RECURSIVE Normalize(_, _)
Normalize(m, s) ==
    IF s > 0 /\ m % 10 = 0 THEN Normalize(m \div 10, s - 1)
    ELSE [nan |-> FALSE, m |-> m, s |-> s]

Num(i) == [nan |-> FALSE, m |-> i, s |-> 0]

\* n < k and n > k for an integer k; every comparison with NaN is false
NumLt(n, k) == ~n.nan /\ n.m < k * Pow10(n.s)
NumGt(n, k) == ~n.nan /\ n.m > k * Pow10(n.s)

\* String.prototype.trim
RECURSIVE TrimLeft(_)
TrimLeft(s) ==
    IF s # <<>> /\ Head(s) = " " THEN TrimLeft(Tail(s)) ELSE s

RECURSIVE TrimRight(_)
TrimRight(s) ==
    IF s # <<>> /\ s[Len(s)] = " " THEN TrimRight(SubSeq(s, 1, Len(s) - 1))
    ELSE s

Trim(s) == TrimRight(TrimLeft(s))

\* String.prototype.split(sep) for a one-character separator
RECURSIVE Split(_, _)
Split(s, sep) ==
    IF \E i \in 1..Len(s) : s[i] = sep
    THEN LET i == CHOOSE j \in 1..Len(s) :
                      s[j] = sep /\ \A k \in 1..(j - 1) : s[k] # sep
         IN  <<SubSeq(s, 1, i - 1)>> \o Split(SubSeq(s, i + 1, Len(s)), sep)
    ELSE <<s>>

\* length of the longest prefix of digits
RECURSIVE DigitRun(_)
DigitRun(s) ==
    IF s # <<>> /\ Head(s) \in Digits THEN 1 + DigitRun(Tail(s)) ELSE 0

RECURSIVE DigitsValue(_)
DigitsValue(s) ==
    IF s = <<>> THEN 0
    ELSE 10 * DigitsValue(SubSeq(s, 1, Len(s) - 1)) + DigitVal(s[Len(s)])

\* parseFloat on a string: leading white space skipped, optional sign, the
\* longest decimal literal prefix, the rest ignored; NaN when no digit is
\* found.  (Exponents and "Infinity" are not among the modelled inputs.)
parseFloat(str) ==
    LET t    == TrimLeft(str)
        neg  == t # <<>> /\ Head(t) = "-"
        sgn  == t # <<>> /\ Head(t) \in {"-", "+"}
        u    == IF sgn THEN Tail(t) ELSE t
        il   == DigitRun(u)
        ip   == SubSeq(u, 1, il)
        r    == SubSeq(u, il + 1, Len(u))
        dot  == r # <<>> /\ Head(r) = "."
        fl   == IF dot THEN DigitRun(Tail(r)) ELSE 0
        fp   == IF dot THEN SubSeq(Tail(r), 1, fl) ELSE <<>>
        mag  == DigitsValue(ip \o fp)
    IN  IF il + fl = 0 THEN NaN
        ELSE Normalize(IF neg THEN -mag ELSE mag, fl)

\* Number.prototype.toString for a finite decimal
RECURSIVE NatToChars(_)
NatToChars(n) ==
    IF n < 10 THEN <<DigitChar(n)>>
    ELSE NatToChars(n \div 10) \o <<DigitChar(n % 10)>>

RECURSIVE PadFrac(_, _)
PadFrac(cs, width) ==
    IF Len(cs) < width THEN PadFrac(<<"0">> \o cs, width) ELSE cs

NumberToString(n) ==
    IF n.nan THEN <<"N", "a", "N">>
    ELSE LET a  == IF n.m < 0 THEN -n.m ELSE n.m
             p  == Pow10(n.s)
             ic == NatToChars(a \div p)
             fc == IF n.s = 0 THEN <<>>
                   ELSE <<".">> \o PadFrac(NatToChars(a % p), n.s)
         IN  (IF n.m < 0 THEN <<"-">> ELSE <<>>) \o ic \o fc

\* parseFloat applied to a number converts it to a string first
parseFloatOfNumber(n) == parseFloat(NumberToString(n))


\* A JavaScript value passed to the API client: undefined, a number or a
\* string
JsUndef == [t |-> "undefined"]
JsNum(n) == [t |-> "number", n |-> n]
JsStr(cs) == [t |-> "string", chars |-> cs]

\* !v
Falsy(v) ==
    \/ v.t = "undefined"
    \/ v.t = "string" /\ v.chars = <<>>
    \/ v.t = "number" /\ (v.n.nan \/ v.n.m = 0)

\* parseFloat(v): the argument is converted to a string first
parseFloatJs(v) ==
    CASE v.t = "string" -> parseFloat(v.chars)
      [] v.t = "number" -> parseFloatOfNumber(v.n)
      [] OTHER -> NaN

\* !code for a constellation, style or format code
NoCode(c) == c = "" \/ c = Undefined

\* ------------------------------------------------------------------------
\* Validation helpers (utils.js, repeated in constellation.js and moon.js)
\* ------------------------------------------------------------------------

\* /^\d{4}-\d{2}-\d{2}$/.test(dateString)
dateRegex(d) ==
    /\ Len(d) = 10
    /\ \A i \in {1, 2, 3, 4, 6, 7, 9, 10} : d[i] \in Digits
    /\ d[5] = "-" /\ d[8] = "-"

\* the regular expression, then new Date(dateString) must not be an Invalid
\* Date: month 01..12 and day 01..31 (a day beyond the month's length, such
\* as 02-30, is engine-dependent and is not among the modelled inputs)
isValidDate(d) ==
    /\ dateRegex(d)
    /\ DigitsValue(SubSeq(d, 6, 7)) \in 1..12
    /\ DigitsValue(SubSeq(d, 9, 10)) \in 1..31

NoCoordinates == [null |-> TRUE]

parseCoordinates(coordString) ==
    IF coordString = <<>> THEN NoCoordinates
    ELSE LET parts == Split(coordString, ",")
         IN  IF Len(parts) # 2 THEN NoCoordinates
             ELSE LET lat == parseFloat(Trim(parts[1]))
                      lng == parseFloat(Trim(parts[2]))
                  IN  IF isNaN(lat) \/ isNaN(lng) THEN NoCoordinates
                      ELSE IF NumLt(lat, -90) \/ NumGt(lat, 90)
                              \/ NumLt(lng, -180) \/ NumGt(lng, 180)
                           THEN NoCoordinates
                           ELSE [lat |-> lat, lng |-> lng]

\* Validation messages (accents dropped)
MsgConstellation == "Por favor, selecione uma constelacao."
MsgStyle == "Por favor, selecione um estilo de visualizacao."
MsgLocation == "Por favor, selecione uma localizacao."
MsgDate == "Por favor, selecione uma data."
MsgDateFormat == "Formato de data invalido. Use YYYY-MM-DD."
MsgCoordinates == "Coordenadas de localizacao invalidas."
MsgLatitude == "Por favor, insira uma latitude valida."
MsgLongitude == "Por favor, insira uma longitude valida."
MsgFormat == "Por favor, selecione um formato."
MsgLatRange == "Latitude deve estar entre -90 e 90 graus."
MsgLngRange == "Longitude deve estar entre -180 e 180 graus."

Valid == [valid |-> TRUE, message |-> ""]
Invalid(msg) == [valid |-> FALSE, message |-> msg]

\* validateFormData with the style check ahead of the constellation check
validateFormData_StyleFirst(formData) ==
    IF NoCode(formData.style) THEN Invalid(MsgStyle)
    ELSE IF NoCode(formData.constellation) THEN Invalid(MsgConstellation)
    ELSE IF formData.location = <<>> THEN Invalid(MsgLocation)
    ELSE IF formData.date = <<>> THEN Invalid(MsgDate)
    ELSE IF ~isValidDate(formData.date) THEN Invalid(MsgDateFormat)
    ELSE IF parseCoordinates(formData.location) = NoCoordinates
         THEN Invalid(MsgCoordinates)
    ELSE Valid

\* AstronomyExplorer.validateFormData and ConstellationApp.validateFormData
validateFormData(formData) ==
    IF NoCode(formData.constellation) THEN Invalid(MsgConstellation)
    ELSE IF NoCode(formData.style) THEN Invalid(MsgStyle)
    ELSE IF formData.location = <<>> THEN Invalid(MsgLocation)
    ELSE IF formData.date = <<>> THEN Invalid(MsgDate)
    ELSE IF ~isValidDate(formData.date) THEN Invalid(MsgDateFormat)
    ELSE IF parseCoordinates(formData.location) = NoCoordinates
         THEN Invalid(MsgCoordinates)
    ELSE Valid

\* MoonApp.validateFormData
MoonValidateFormData(formData) ==
    IF formData.latitude = <<>> \/ isNaN(parseFloat(formData.latitude))
    THEN Invalid(MsgLatitude)
    ELSE IF formData.longitude = <<>> \/ isNaN(parseFloat(formData.longitude))
    THEN Invalid(MsgLongitude)
    ELSE IF formData.date = <<>> THEN Invalid(MsgDate)
    ELSE IF ~isValidDate(formData.date) THEN Invalid(MsgDateFormat)
    ELSE IF NoCode(formData.format) THEN Invalid(MsgFormat)
    ELSE LET lat == parseFloat(formData.latitude)
             lng == parseFloat(formData.longitude)
         IN  IF NumLt(lat, -90) \/ NumGt(lat, 90) THEN Invalid(MsgLatRange)
             ELSE IF NumLt(lng, -180) \/ NumGt(lng, 180)
                  THEN Invalid(MsgLngRange)
             ELSE Valid

\* The presence check of the legacy handleSubmit
MsgRequiredFields == "Por favor, preencha todos os campos: constelacao, estilo, localizacao e data."

LegacyRequiredFields(formData) ==
    IF NoCode(formData.constellation) \/ NoCode(formData.style)
       \/ formData.location = <<>> \/ formData.date = <<>>
    THEN Invalid(MsgRequiredFields)
    ELSE Valid


\* ------------------------------------------------------------------------
\* The network: what fetch() can produce
\* ------------------------------------------------------------------------

\* Response bodies as raw text, and JSON.parse as a table over them
BodyTexts ==
    {"<html>", "null", "{}", "{data:{}}", "{data:{imageUrl:''}}",
     "{data:{imageUrl:'u1'}}", "{imageUrl:''}", "{imageUrl:'u1'}",
     "{error:'bad'}"}

JsonNull == [null |-> TRUE]
EmptyObject == [k \in {} |-> ""]

JsonDecodable(text) == text # "<html>"

JsonParse(text) ==
    CASE text = "null" -> JsonNull
      [] text = "{}" -> EmptyObject
      [] text = "{data:{}}" -> [data |-> EmptyObject]
      [] text = "{data:{imageUrl:''}}" -> [data |-> [imageUrl |-> ""]]
      [] text = "{data:{imageUrl:'u1'}}" -> [data |-> [imageUrl |-> "u1"]]
      [] text = "{imageUrl:''}" -> [imageUrl |-> ""]
      [] text = "{imageUrl:'u1'}" -> [imageUrl |-> "u1"]
      [] text = "{error:'bad'}" -> [error |-> "bad"]
      [] text = "{errors:'bad'}" -> [errors |-> "bad"]

SyntaxErrorMessage == "Unexpected token < in JSON at position 0"
NullReadMessage == "Cannot read properties of null"

Statuses == {200, 401, 404, 503}

StatusText(status) ==
    CASE status = 200 -> "OK"
      [] status = 401 -> "Unauthorized"
      [] status = 404 -> "Not Found"
      [] status = 503 -> "Service Unavailable"

\* Response.ok
ResponseOk(response) == response.status >= 200 /\ response.status <= 299

\* The message of the TypeError fetch rejects with differs by engine
FetchFailureMessages == {"Failed to fetch", "Load failed"}

\* the words of a message, for String.prototype.includes on a word
MessageWords(msg) ==
    CASE msg = "Failed to fetch" -> {"Failed", "to", "fetch"}
      [] msg = "Load failed" -> {"Load", "failed"}
      [] OTHER -> {}

includes(msg, word) == word \in MessageWords(msg)

TransportFailure(msg) == [kind |-> "failure", message |-> msg]
HttpResponse(status, body) ==
    [kind |-> "http", status |-> status, statusText |-> StatusText(status),
     body |-> body]

Responses ==
    {TransportFailure(m) : m \in FetchFailureMessages}
    \cup {HttpResponse(200, b) : b \in BodyTexts}
    \cup {HttpResponse(401, b) :
              b \in {"<html>", "{error:'bad'}", "{errors:'bad'}"}}
    \cup {HttpResponse(404, "<html>"), HttpResponse(503, "{error:'bad'}")}

\* ------------------------------------------------------------------------
\* Errors
\* ------------------------------------------------------------------------
NoStatus == -1

APIError(message, status, statusText, details) ==
    [name |-> "APIError", message |-> message, status |-> status,
     statusText |-> statusText, details |-> details, cause |-> FALSE]

Error(message) ==
    [name |-> "Error", message |-> message, status |-> NoStatus,
     statusText |-> "", details |-> EmptyObject, cause |-> FALSE]

TypeError(message) == [Error(message) EXCEPT !.name = "TypeError"]
SyntaxError(message) == [Error(message) EXCEPT !.name = "SyntaxError"]

\* new Error(message, {cause: {status, statusText, details}}) of the legacy
\* client
ErrorWithCause(message, status, statusText, details) ==
    [name |-> "Error", message |-> message, status |-> status,
     statusText |-> statusText, details |-> details, cause |-> TRUE]

\* `API Error: ${response.status} - ${response.statusText}`
ApiErrorMessage(response) ==
    CASE response.status = 401 -> "API Error: 401 - Unauthorized"
      [] response.status = 404 -> "API Error: 404 - Not Found"
      [] response.status = 503 -> "API Error: 503 - Service Unavailable"
      [] OTHER -> "API Error"

Ok(value) == [ok |-> TRUE, value |-> value]
Fail(error) == [ok |-> FALSE, error |-> error]

\* APIError.getUserMessage (api.js, constellation.js; moon.js differs for 0)
getUserMessage(error) ==
    CASE error.status = 401 ->
           "Credenciais da API invalidas. Verifique sua Application ID e Secret."
      [] error.status = 403 ->
           "Acesso negado. Verifique suas permissoes da API."
      [] error.status = 429 ->
           "Limite de requisicoes excedido. Tente novamente em alguns minutos."
      [] error.status = 422 ->
           "Dados invalidos enviados para a API. Verifique os parametros."
      [] error.status \in {500, 502, 503, 504} ->
           "Erro no servidor da API. Tente novamente mais tarde."
      [] error.status = 0 ->
           "Erro de conexao. Verifique sua internet e tente novamente."
      [] OTHER ->
           IF error.message # "" THEN error.message
           ELSE "Erro desconhecido na API."

MoonGetUserMessage(error) ==
    IF error.status = 0
    THEN "Erro de CORS: O metodo OPTIONS nao esta configurado corretamente na API."
    ELSE getUserMessage(error)


\* ------------------------------------------------------------------------
\* HTTP client: request()
\* ------------------------------------------------------------------------

\* the catch block of request() letting the caught error through unwrapped
NetworkError_Unwrapped(msg) == SyntaxError(msg)

\* the catch block of request() for an error that is not an APIError
NetworkError(msg) ==
    APIError("Network error or API unavailable", 0, "Network Error",
             [originalError |-> msg])

\* request() dropping the decoded error body of a non-2xx response
request_NoDetails(response) ==
    IF response.kind = "failure" THEN Fail(NetworkError(response.message))
    ELSE IF ~ResponseOk(response)
    THEN Fail(APIError(ApiErrorMessage(response), response.status,
                       response.statusText, EmptyObject))
    ELSE IF ~JsonDecodable(response.body)
    THEN Fail(NetworkError(SyntaxErrorMessage))
    ELSE Ok(JsonParse(response.body))

\* AstronomyAPI.request from the point fetch() settles (api.js, app.js,
\* constellation.js)
request(response) ==
    IF response.kind = "failure" THEN Fail(NetworkError(response.message))
    ELSE IF ~ResponseOk(response)
    THEN Fail(APIError(ApiErrorMessage(response), response.status,
                       response.statusText,
                       IF JsonDecodable(response.body)
                       THEN JsonParse(response.body) ELSE EmptyObject))
    ELSE IF ~JsonDecodable(response.body)
    THEN Fail(NetworkError(SyntaxErrorMessage))
    ELSE Ok(JsonParse(response.body))

\* the catch block of MoonAPI.request for an error that is not an APIError
MoonNetworkError(msg) ==
    IF includes(msg, "CORS") \/ includes(msg, "preflight")
       \/ includes(msg, "fetch")
    THEN APIError("Erro de CORS: Preflight request falhou", 0, "CORS Error",
                  [originalError |-> msg,
                   solution |-> "O metodo OPTIONS precisa retornar status 200 OK"])
    ELSE APIError("Erro de rede ou API indisponivel", 0, "Network Error",
                  [originalError |-> msg])

\* MoonAPI.request from the point fetch() settles
MoonRequest(response) ==
    IF response.kind = "failure" THEN Fail(MoonNetworkError(response.message))
    ELSE IF ~ResponseOk(response)
    THEN Fail(APIError(ApiErrorMessage(response), response.status,
                       response.statusText,
                       IF JsonDecodable(response.body)
                       THEN JsonParse(response.body) ELSE EmptyObject))
    ELSE IF ~JsonDecodable(response.body)
    THEN Fail(MoonNetworkError(SyntaxErrorMessage))
    ELSE Ok(JsonParse(response.body))

\* ------------------------------------------------------------------------
\* Request builder and response validator of the chart operations
\* ------------------------------------------------------------------------

\* JSON.stringify of a number: NaN is written as null
JsonNumberText(n) ==
    IF n.nan THEN <<"n", "u", "l", "l">> ELSE NumberToString(n)

BasicAuth(credentials) == [scheme |-> "Basic", credentials |-> credentials]

JsonHeaders(auth) ==
    [Authorization |-> auth, ContentType |-> "application/json",
     Accept |-> "application/json"]

FixedAuthHeader == <<"dHllZGZzZGY6dHdyZXQyMzQ=">>

\* generateStarChart sending latitude and longitude in each other's place
StarChartRequestBody_Swapped(params) ==
    IF NoCode(params.constellation) THEN Fail(Error("Constellation is required"))
    ELSE IF params.latitude.t = "undefined" \/ params.longitude.t = "undefined"
    THEN Fail(Error("Latitude and longitude are required"))
    ELSE IF Falsy(params.date) THEN Fail(Error("Date is required"))
    ELSE Ok([style |-> IF params.style = Undefined THEN "default"
                       ELSE params.style,
             observer |->
                 [latitude |-> JsonNumberText(parseFloatJs(params.longitude)),
                  longitude |-> JsonNumberText(parseFloatJs(params.latitude)),
                  date |-> params.date.chars],
             view |-> [type |-> "constellation",
                       parameters |->
                           [constellation |-> params.constellation]]])

\* AstronomyAPI.generateStarChart up to the call of request(): the checks of
\* the parameters, then requestData and JSON.stringify(requestData)
StarChartRequestBody(params) ==
    IF NoCode(params.constellation) THEN Fail(Error("Constellation is required"))
    ELSE IF params.latitude.t = "undefined" \/ params.longitude.t = "undefined"
    THEN Fail(Error("Latitude and longitude are required"))
    ELSE IF Falsy(params.date) THEN Fail(Error("Date is required"))
    ELSE Ok([style |-> IF params.style = Undefined THEN "default"
                       ELSE params.style,
             observer |->
                 [latitude |-> JsonNumberText(parseFloatJs(params.latitude)),
                  longitude |-> JsonNumberText(parseFloatJs(params.longitude)),
                  date |-> params.date.chars],
             view |-> [type |-> "constellation",
                       parameters |->
                           [constellation |-> params.constellation]]])

\* generateStarChart accepting an empty image URL
StarChartResponse_EmptyUrl(result) ==
    IF ~result.ok THEN result
    ELSE IF result.value = JsonNull THEN Fail(TypeError(NullReadMessage))
    ELSE IF \/ "data" \notin DOMAIN result.value
            \/ "imageUrl" \notin DOMAIN result.value.data
    THEN Fail(Error("Invalid API response: missing image URL"))
    ELSE result

\* AstronomyAPI.generateStarChart after request() returned
StarChartResponse(result) ==
    IF ~result.ok THEN result
    ELSE IF result.value = JsonNull THEN Fail(TypeError(NullReadMessage))
    ELSE IF \/ "data" \notin DOMAIN result.value
            \/ "imageUrl" \notin DOMAIN result.value.data
            \/ result.value.data.imageUrl = ""
    THEN Fail(Error("Invalid API response: missing image URL"))
    ELSE result

OrDefault(v, d) == IF NoCode(v) THEN d ELSE v

\* MoonAPI.generateMoonVisualization up to the call of request()
MoonRequestBody(params) ==
    IF NoCode(params.format) THEN Fail(Error("Format is required"))
    ELSE IF params.latitude.t = "undefined" \/ params.longitude.t = "undefined"
    THEN Fail(Error("Latitude and longitude are required"))
    ELSE IF Falsy(params.date) THEN Fail(Error("Date is required"))
    ELSE Ok([format |-> params.format,
             observer |->
                 [latitude |-> JsonNumberText(parseFloatJs(params.latitude)),
                  longitude |-> JsonNumberText(parseFloatJs(params.longitude)),
                  date |-> params.date.chars],
             style |-> [moonStyle |-> OrDefault(params.moonStyle, "default"),
                        backgroundStyle |->
                            OrDefault(params.backgroundStyle, "stars")],
             view |-> [orientation |-> "south-up",
                       type |-> "portrait-simple"]])

\* MoonAPI.generateMoonVisualization after request() returned
MoonResponse(result) ==
    IF ~result.ok THEN result
    ELSE IF \/ result.value = JsonNull
            \/ "imageUrl" \notin DOMAIN result.value
            \/ result.value.imageUrl = ""
    THEN Fail(Error("Invalid API response: missing image URL"))
    ELSE result

\* The legacy generateStarChart up to fetch(): its own checks, then
\* requestData and JSON.stringify(requestData)
LegacyRequestBody(constellation, style, location, date) ==
    IF Trim(date) = <<>> THEN Fail(Error("Data e obrigatoria"))
    ELSE IF ~dateRegex(date)
    THEN Fail(Error("Formato de data invalido. Use YYYY-MM-DD"))
    ELSE IF location = <<>> THEN Fail(Error("Localizacao nao selecionada"))
    ELSE LET locationParts == Split(location, ",")
         IN  IF Len(locationParts) # 2
             THEN Fail(Error("Formato de localizacao invalido"))
             ELSE LET latitude == parseFloat(Trim(locationParts[1]))
                      longitude == parseFloat(Trim(locationParts[2]))
                  IN  IF isNaN(latitude) \/ isNaN(longitude)
                      THEN Fail(Error("Coordenadas invalidas"))
                      ELSE IF NoCode(constellation)
                      THEN Fail(Error("Constelacao e obrigatoria"))
                      ELSE IF NoCode(style)
                      THEN Fail(Error("Estilo e obrigatorio"))
                      ELSE Ok([style |-> style,
                               observer |->
                                   [latitude |-> JsonNumberText(latitude),
                                    longitude |-> JsonNumberText(longitude),
                                    date |-> date],
                               view |-> [type |-> "constellation",
                                         parameters |->
                                             [constellation |-> constellation]]])

\* The legacy generateStarChart from the point fetch() settles to the throw
\* or to the call of displayResults
LegacyResponse(response) ==
    IF response.kind = "failure" THEN Fail(TypeError(response.message))
    ELSE IF ~ResponseOk(response)
    THEN Fail(ErrorWithCause(ApiErrorMessage(response), response.status,
                             response.statusText,
                             IF JsonDecodable(response.body)
                             THEN JsonParse(response.body) ELSE EmptyObject))
    ELSE IF ~JsonDecodable(response.body)
    THEN Fail(SyntaxError(SyntaxErrorMessage))
    ELSE LET data == JsonParse(response.body)
         IN  IF data = JsonNull THEN Fail(TypeError(NullReadMessage))
             ELSE IF \/ "data" \notin DOMAIN data
                     \/ "imageUrl" \notin DOMAIN data.data
                     \/ data.data.imageUrl = ""
             THEN Fail(ErrorWithCause("Resposta invalida da API", NoStatus,
                                      "", data))
             ELSE Ok(data)


\* ------------------------------------------------------------------------
\* Inputs of the form-submit machine
\* ------------------------------------------------------------------------
Variants == {"modern", "constellation", "moon", "legacy"}

GoodDate == <<"2", "0", "2", "4", "-", "0", "6", "-", "0", "1">>
BadMonthDate == <<"2", "0", "2", "4", "-", "1", "3", "-", "0", "1">>
SlashDate == <<"1", "/", "6">>
Dates == {<<>>, SlashDate, BadMonthDate, GoodDate}

LocAtlanta == <<"3", "3", ".", "7", ",", "-", "8", "4", ".", "0", "5">>
LocEdge == <<"-", "9", "0", ",", " ", "1", "8", "0">>
LocLatHigh == <<"9", "1", ",", "0">>
LocLngLow == <<"0", ",", "-", "1", "8", "1">>
LocWord == <<"x", ",", "5">>
LocThree == <<"1", ",", "2", ",", "3">>
LocSuffix == <<"9", "x", ",", "5">>
Locations ==
    {<<>>, LocAtlanta, LocEdge, LocLatHigh, LocLngLow, LocWord, LocThree,
     LocSuffix}

Constellations == {"", "ori"}
Styles == {"", "default"}

StarForm(c, st, loc, d) ==
    [constellation |-> c, style |-> st, location |-> loc, date |-> d]

\* every combination of the fields, for the validation functions
AllStarForms ==
    {StarForm(c, st, loc, d) :
        c \in Constellations, st \in Styles, loc \in Locations, d \in Dates}

\* the forms submitted in the submit machine
StarForms ==
    {StarForm("ori", "default", LocAtlanta, GoodDate),
     StarForm("ori", "default", LocEdge, GoodDate),
     StarForm("ori", "default", LocLatHigh, GoodDate),
     StarForm("ori", "default", LocLngLow, GoodDate),
     StarForm("ori", "default", LocWord, GoodDate),
     StarForm("ori", "default", LocAtlanta, BadMonthDate),
     StarForm("ori", "default", LocAtlanta, SlashDate),
     StarForm("", "default", LocAtlanta, GoodDate),
     StarForm("ori", "", LocLatHigh, <<>>)}

Latitudes == {<<>>, <<"x">>, <<"4", "5", ".", "5">>, <<"9", "1">>,
              <<"-", "9", "0">>}
Longitudes == {<<>>, <<"x">>, <<"-", "8", "4", ".", "3">>,
               <<"1", "8", "1">>}
Formats == {"", "png"}

MoonForm(lat, lng, d, f) ==
    [latitude |-> lat, longitude |-> lng, date |-> d, format |-> f,
     moonStyle |-> "shaded", backgroundStyle |-> ""]

AllMoonForms ==
    {MoonForm(lat, lng, d, f) :
        lat \in Latitudes, lng \in Longitudes, d \in Dates, f \in Formats}

MoonForms ==
    {MoonForm(<<"4", "5", ".", "5">>, <<"-", "8", "4", ".", "3">>, GoodDate, "png"),
     MoonForm(<<"-", "9", "0">>, <<"-", "8", "4", ".", "3">>, GoodDate, "png"),
     MoonForm(<<"9", "1">>, <<"-", "8", "4", ".", "3">>, GoodDate, "png"),
     MoonForm(<<"4", "5", ".", "5">>, <<"1", "8", "1">>, GoodDate, "png"),
     MoonForm(<<"x">>, <<"1", "8", "1">>, GoodDate, "png"),
     MoonForm(<<"x">>, <<"-", "8", "4", ".", "3">>, <<>>, "png"),
     MoonForm(<<"4", "5", ".", "5">>, <<"x">>, SlashDate, "png"),
     MoonForm(<<"4", "5", ".", "5">>, <<"-", "8", "4", ".", "3">>, BadMonthDate, "png"),
     MoonForm(<<"9", "1">>, <<"-", "8", "4", ".", "3">>, GoodDate, "")}

FormsOf(v) == IF v = "moon" THEN MoonForms ELSE StarForms

\* arguments a caller other than the form passes to the exported client
StarParams(c, st, lat, lng, d) ==
    [constellation |-> c, style |-> st, latitude |-> lat, longitude |-> lng,
     date |-> d]

ApiParams ==
    {StarParams("ori", "default", JsNum(Num(10)), JsNum(Num(20)), JsStr(GoodDate)),
     StarParams("ori", Undefined, JsNum(Num(10)), JsNum(Num(20)), JsStr(GoodDate)),
     StarParams("ori", "default", JsNum(Num(100)), JsNum(Num(20)), JsStr(GoodDate)),
     StarParams("ori", "default", JsStr(<<"x">>), JsNum(Num(20)), JsStr(GoodDate)),
     StarParams("ori", "default", JsUndef, JsNum(Num(20)), JsStr(GoodDate)),
     StarParams("", "default", JsNum(Num(10)), JsNum(Num(20)), JsStr(GoodDate)),
     StarParams("ori", "default", JsNum(Num(10)), JsNum(Num(20)), JsUndef)}

\* ------------------------------------------------------------------------
\* APICache
\* ------------------------------------------------------------------------
MaxCacheOps == 4
MaxNow == 4

\* this.maxAge of a cache constructed as new APICache(2)
maxAge == 2

CacheKeys == {"k1", "k2", "k3"}
CacheData == {"d1", "d2"}

\* new Map()
NoEntries == [k \in {} |-> ""]

\* what get() returns for a hit, as against null
Returned(data) == [data |-> data]

\* the value set() stores with a timestamp that is not taken at the call
Entry_Epoch(data, t) == [data |-> data, timestamp |-> 0]

\* the value set() stores: { data, timestamp: Date.now() }
Entry(data, t) == [data |-> data, timestamp |-> t]

\* this.cache.delete(key) for each key of keys
Without(c, keys) == [k \in DOMAIN c \ keys |-> c[k]]

\* get(key) that leaves an expired entry in the Map
get_NoEvict(c, key, t) ==
    IF key \notin DOMAIN c THEN [cache |-> c, value |-> JsonNull]
    ELSE IF t - c[key].timestamp > maxAge
    THEN [cache |-> c, value |-> JsonNull]
    ELSE [cache |-> c, value |-> Returned(c[key].data)]

\* APICache.get(key) at time t: the Map afterwards and the value returned
get(c, key, t) ==
    IF key \notin DOMAIN c THEN [cache |-> c, value |-> JsonNull]
    ELSE IF t - c[key].timestamp > maxAge
    THEN [cache |-> Without(c, {key}), value |-> JsonNull]
    ELSE [cache |-> c, value |-> Returned(c[key].data)]

\* set(key, data) that sweeps the expired entries first
set_Sweeps(c, key, data, t) ==
    [k \in {j \in DOMAIN c : ~(t - c[j].timestamp > maxAge)} \cup {key} |->
        IF k = key THEN Entry(data, t) ELSE c[k]]

\* APICache.set(key, data) at time t
set(c, key, data, t) ==
    [k \in DOMAIN c \cup {key} |-> IF k = key THEN Entry(data, t) ELSE c[k]]

\* APICache.clear()
clear(c) == NoEntries

\* clearExpired() that empties the Map
clearExpired_All(c, t) == NoEntries

\* APICache.clearExpired() at time t
clearExpired(c, t) ==
    Without(c, {k \in DOMAIN c : t - c[k].timestamp > maxAge})

\* ------------------------------------------------------------------------
\* State
\* ------------------------------------------------------------------------
VARIABLES
    variant,        \* which page script runs
    apiKey,         \* credentials held by the client (modern, legacy)
    apiSecret,
    shown,          \* which sections carry the 'show' class
    btnDisabled,    \* searchBtn.disabled
    currentRequest, \* this.currentRequest
    toast,          \* title of the last toast
    errorMessage,   \* content of #errorMessage
    displayed,      \* image and request data put on the page by displayResults
    inflight,       \* chart operations that have not finished
    netCount,       \* number of fetch() calls issued
    lastCall,       \* the last fetch() call
    submits,        \* number of handleSubmit and direct client calls so far
    lastSubmit,     \* what the last handleSubmit did up to its first await
    lastDone,       \* the last chart operation that finished
    vForm,          \* input of the function under check (validation, messages)
    vResult,        \* its result
    cache,          \* apiCache.cache: key -> {data, timestamp}
    now,            \* Date.now()
    written,        \* per key, the last set() not followed by clear()
    cacheOp,        \* the last call on apiCache and what it returned
    cacheOps,       \* number of calls on apiCache so far
    storage,        \* localStorage: item name -> text
    inputs,         \* value of the #apiKey and #apiSecret inputs
    lastSaved,      \* the pair of the last save that passed its checks
    credOp,         \* the last credential operation and the state before it
    clock,          \* performance.now() and the timer clock, in time units
    currentProgress, \* ProgressManager.currentProgress, in 1/135 of a percent
    animations,     \* pending requestAnimationFrame callbacks, in order
    chart,          \* the chart operation that drives the progress bar
    dataTheme,      \* the data-theme attribute of the document element
    systemScheme,   \* the colour scheme of the operating system
    themeLog,       \* what the ThemeManager has gone through
    immediate,      \* the immediate argument of debounce
    timeout,        \* the timeout variable of the debounced function
    inThrottle,     \* the inThrottle variable of the throttled function
    throttleTimer,  \* due time of the pending timer of throttle
    log             \* calls of the wrapper and invocations of func so far

cacheVars == <<cache, now, written, cacheOp, cacheOps>>

pageVars ==
    <<variant, apiKey, apiSecret, shown, btnDisabled, currentRequest, toast,
      errorMessage, displayed, inflight, netCount, lastCall, submits,
      lastSubmit, lastDone, vForm, vResult, cacheVars>>

credVars == <<storage, inputs, lastSaved, credOp>>

progressVars == <<currentProgress, animations, chart>>

themeVars == <<dataTheme, systemScheme, themeLog>>

timerVars == <<immediate, timeout, inThrottle, throttleTimer, log>>

auxVars == <<credVars, clock, progressVars, themeVars, timerVars>>

vars ==
    <<variant, apiKey, apiSecret, shown, btnDisabled, currentRequest, toast,
      errorMessage, displayed, inflight, netCount, lastCall, submits,
      lastSubmit, lastDone, vForm, vResult, cacheVars, auxVars>>

None == [none |-> TRUE]

Null == "<null>"

NoItems == [name \in {} |-> <<>>]

AllHidden ==
    [loading |-> FALSE, results |-> FALSE, error |-> FALSE, info |-> FALSE]

Text(t) == [kind |-> "text", text |-> t]

\* hasCredentials()
hasCredentials == apiKey # "" /\ apiSecret # ""

InitMachine ==
    /\ variant \in Variants
    /\ \/ apiKey = "" /\ apiSecret = ""
       \/ apiKey = "app-id" /\ apiSecret = "app-secret"
    /\ variant \in {"constellation", "moon"} => apiKey = ""
    /\ shown = AllHidden
    /\ btnDisabled = FALSE
    /\ currentRequest = None
    /\ toast = ""
    /\ errorMessage = Text("")
    /\ displayed = None
    /\ inflight = <<>>
    /\ netCount = 0
    /\ lastCall = None
    /\ submits = 0
    /\ lastSubmit = None
    /\ lastDone = None

\* new APICache(): an empty Map
InitCache ==
    /\ cache = NoEntries
    /\ now = 0
    /\ written = [k \in CacheKeys |-> None]
    /\ cacheOp = None
    /\ cacheOps = 0

\* a browser profile in which nothing has been stored, and empty inputs
InitCredentials ==
    /\ storage = NoItems
    /\ inputs = [apiKey |-> <<>>, apiSecret |-> <<>>]
    /\ lastSaved = None
    /\ credOp = None

\* new ProgressManager(element)
InitProgress ==
    /\ currentProgress = 0
    /\ animations = <<>>
    /\ chart = [pc |-> "idle", completing |-> FALSE, since |-> 0, n |-> 0]

\* the document before a ThemeManager is constructed
InitTheme ==
    /\ dataTheme = Null
    /\ systemScheme \in {"light", "dark"}
    /\ themeLog = None

\* debounce(func, wait, immediate) and throttle(func, limit) just returned
InitTimers ==
    /\ immediate = FALSE
    /\ timeout = [id |-> Undefined]
    /\ inThrottle = FALSE
    /\ throttleTimer = None
    /\ log = <<>>

InitAux ==
    /\ InitCredentials
    /\ clock = 0
    /\ InitProgress
    /\ InitTheme
    /\ systemScheme = "light"
    /\ InitTimers

Init ==
    /\ InitMachine
    /\ InitCache
    /\ InitAux
    /\ vForm = None
    /\ vResult = None


\* ------------------------------------------------------------------------
\* The page scripts that share one shape: AstronomyExplorer (main.js),
\* ConstellationApp and MoonApp
\* ------------------------------------------------------------------------
btoa(key, secret) == <<"btoa", key, secret>>

Endpoint(v) ==
    CASE v = "constellation" -> "/constellations"
      [] v = "moon" -> "/moon"
      [] OTHER -> "/studio/star-chart"

\* the Authorization header request() builds
AuthOf(v) ==
    IF v \in {"modern", "legacy"} THEN BasicAuth(btoa(apiKey, apiSecret))
    ELSE BasicAuth(FixedAuthHeader)

\* defaultOptions.headers of request(); MoonAPI adds X-Requested-With while
\* it goes through the proxy
DefaultHeaders(v) ==
    IF v = "moon"
    THEN [Authorization |-> AuthOf(v), ContentType |-> "application/json",
          Accept |-> "application/json", XRequestedWith |-> "XMLHttpRequest"]
    ELSE JsonHeaders(AuthOf(v))

ValidationOf(v, form) ==
    CASE v = "moon" -> MoonValidateFormData(form)
      [] v = "legacy" -> LegacyRequiredFields(form)
      [] OTHER -> validateFormData(form)

\* this.currentRequest as generateStarChart / generateMoonVisualization of
\* the page stores it
CurrentRequestOf(v, form) ==
    IF v = "moon" THEN form
    ELSE [constellation |-> form.constellation, style |-> form.style,
          location |-> form.location, date |-> form.date,
          coordinates |-> parseCoordinates(form.location)]

\* the page's call of the client's chart operation, up to fetch()
ChartRequestBody(v, form) ==
    IF v = "moon"
    THEN MoonRequestBody([format |-> form.format,
                          latitude |-> JsStr(form.latitude),
                          longitude |-> JsStr(form.longitude),
                          date |-> JsStr(form.date),
                          moonStyle |-> form.moonStyle,
                          backgroundStyle |-> form.backgroundStyle])
    ELSE LET coordinates == parseCoordinates(form.location)
         IN  IF coordinates = NoCoordinates
             THEN Fail(TypeError(NullReadMessage))
             ELSE StarChartRequestBody(
                      StarParams(form.constellation, form.style,
                                 JsNum(coordinates.lat), JsNum(coordinates.lng),
                                 JsStr(form.date)))

\* the client's chart operation from the point fetch() settles
ChartResult(v, response) ==
    IF v = "moon" THEN MoonResponse(MoonRequest(response))
    ELSE StarChartResponse(request(response))

ImageUrlOf(v, value) ==
    IF v = "moon" THEN value.imageUrl ELSE value.data.imageUrl

UserMessageOf(v, error) ==
    IF v = "moon" THEN MoonGetUserMessage(error) ELSE getUserMessage(error)

\* values of details.errors that have no forEach method
ErrorsWithoutForEach == {"bad"}

\* formatErrorDetails(error) throws a TypeError at details.details.errors
\* .forEach when errors is set and is not an array
formatErrorDetailsThrows(error) ==
    /\ "errors" \in DOMAIN error.details
    /\ error.details.errors \in ErrorsWithoutForEach

\* formatErrorDetails(error): the status line and the details
formatErrorDetails(error) ==
    [kind |-> "details", status |-> error.status,
     statusText |-> error.statusText, details |-> error.details]

\* showError adding 'show' to the error section without hiding the others
ShowError_NoHide(title, message) ==
    /\ shown' = [shown EXCEPT !.error = TRUE]
    /\ errorMessage' = message
    /\ toast' = title

\* showError(title, message): hideAllSections, the message, the error
\* section and the toast
ShowError(title, message) ==
    /\ shown' = [AllHidden EXCEPT !.error = TRUE]
    /\ errorMessage' = message
    /\ toast' = title

\* the catch block of handleSubmit
CatchInHandleSubmit(v, error) ==
    IF error.name = "APIError"
    THEN IF formatErrorDetailsThrows(error)
         THEN UNCHANGED <<shown, errorMessage, toast>>
         ELSE ShowError(UserMessageOf(v, error), formatErrorDetails(error))
    ELSE ShowError("Erro inesperado", Text(error.message))

Submitted(form, outcome, message) ==
    [n |-> submits + 1, form |-> form, outcome |-> outcome,
     message |-> message]

Operation(id, origin, form) ==
    [id |-> id, origin |-> origin, form |-> form, pc |-> "fetching",
     response |-> None, result |-> None]

Call(id, v, body) ==
    [id |-> id, endpoint |-> Endpoint(v), method |-> "POST",
     headers |-> DefaultHeaders(v), body |-> body]

Remove(seq, i) == SubSeq(seq, 1, i - 1) \o SubSeq(seq, i + 1, Len(seq))

\* handleSubmit recording the form as the current request before it
\* validates
RejectSubmit_Recorded(form, message) ==
    /\ ShowError("Dados invalidos", Text(message))
    /\ lastSubmit' = Submitted(form, "invalid", message)
    /\ currentRequest' = form
    /\ UNCHANGED <<btnDisabled, inflight, netCount, lastCall, lastDone>>

\* handleSubmit when validateFormData reports a failure: showError and return
RejectSubmit(form, message) ==
    /\ ShowError("Dados invalidos", Text(message))
    /\ lastSubmit' = Submitted(form, "invalid", message)
    /\ UNCHANGED <<btnDisabled, currentRequest, inflight, netCount, lastCall,
                   lastDone>>

\* handleSubmit up to its first await that leaves the task: the checks, and
\* for a valid form generateStarChart / generateMoonVisualization up to
\* fetch()
handleSubmit(form) ==
    /\ variant \in {"modern", "constellation", "moon"}
    /\ submits < MaxSubmits
    /\ submits' = submits + 1
    /\ IF variant = "modern" /\ ~hasCredentials
       THEN /\ ShowError("Credenciais da API nao configuradas",
                         Text("Por favor, configure suas credenciais da Astronomy API na secao de configuracao abaixo."))
            /\ lastSubmit' = Submitted(form, "no_credentials", "")
            /\ UNCHANGED <<btnDisabled, currentRequest, inflight, netCount,
                           lastCall, lastDone>>
       ELSE IF ~ValidationOf(variant, form).valid
       THEN RejectSubmit(form, ValidationOf(variant, form).message)
       ELSE LET body == ChartRequestBody(variant, form)
                op == Operation(submits + 1, "submit", form)
            IN  /\ currentRequest' = CurrentRequestOf(variant, form)
                /\ IF body.ok
                   THEN /\ shown' = [AllHidden EXCEPT !.loading = TRUE]
                        /\ btnDisabled' = TRUE
                        /\ inflight' = Append(inflight, op)
                        /\ netCount' = netCount + 1
                        /\ lastCall' = Call(submits + 1, variant, body.value)
                        /\ lastSubmit' = Submitted(form, "sent", "")
                        /\ UNCHANGED <<toast, errorMessage, lastDone>>
                   ELSE /\ CatchInHandleSubmit(variant, body.error)
                        /\ btnDisabled' = FALSE
                        /\ lastSubmit' = Submitted(form, "thrown",
                                                   body.error.message)
                        /\ lastDone' = [op EXCEPT !.pc = "failed",
                                                  !.result = body]
                        /\ UNCHANGED <<inflight, netCount, lastCall>>
    /\ UNCHANGED <<variant, apiKey, apiSecret, displayed, vForm, vResult, cacheVars, auxVars>>

\* the chart operation of a submit resumes when fetch() settles: on failure
\* the finally block and the catch block of handleSubmit run, on success the
\* operation waits 500 ms before displayResults
Respond(i, response) ==
    /\ variant \in {"modern", "constellation", "moon"}
    /\ i \in 1..Len(inflight)
    /\ inflight[i].pc = "fetching"
    /\ inflight[i].origin = "submit"
    /\ LET result == ChartResult(variant, response)
           op == [inflight[i] EXCEPT !.response = response,
                                     !.result = result]
       IN  IF result.ok
           THEN /\ inflight' = [inflight EXCEPT ![i] =
                                   [op EXCEPT !.pc = "waiting"]]
                /\ UNCHANGED <<shown, errorMessage, toast, btnDisabled,
                               lastDone>>
           ELSE /\ inflight' = Remove(inflight, i)
                /\ CatchInHandleSubmit(variant, result.error)
                /\ btnDisabled' = FALSE
                /\ lastDone' = [op EXCEPT !.pc = "failed"]
    /\ UNCHANGED <<variant, apiKey, apiSecret, currentRequest, displayed,
                   netCount, lastCall, submits, lastSubmit, vForm, vResult, cacheVars, auxVars>>

\* the 500 ms timer of a successful operation fires: displayResults, then the
\* finally block re-enables the button
displayResults(i) ==
    /\ variant \in {"modern", "constellation", "moon"}
    /\ i \in 1..Len(inflight)
    /\ inflight[i].pc = "waiting"
    /\ shown' = [AllHidden EXCEPT !.results = TRUE, !.info = TRUE]
    /\ displayed' = [imageUrl |-> ImageUrlOf(variant, inflight[i].result.value),
                     request |-> currentRequest, id |-> inflight[i].id]
    /\ toast' = "Gerado com sucesso!"
    /\ btnDisabled' = FALSE
    /\ inflight' = Remove(inflight, i)
    /\ lastDone' = [inflight[i] EXCEPT !.pc = "displayed"]
    /\ UNCHANGED <<variant, apiKey, apiSecret, currentRequest, errorMessage,
                   netCount, lastCall, submits, lastSubmit, vForm, vResult, cacheVars, auxVars>>


\* ------------------------------------------------------------------------
\* The exported client of api.js called by code other than the form
\* ------------------------------------------------------------------------

\* generateStarChart joining a request in flight for the same parameters
\* in place of issuing its own
generateStarChart_Shared(params) ==
    /\ variant = "modern"
    /\ submits < MaxSubmits
    /\ submits' = submits + 1
    /\ LET body == IF StarChartRequestBody(params).ok /\ ~hasCredentials
                   THEN Fail(Error("API credentials not set"))
                   ELSE StarChartRequestBody(params)
           op == Operation(submits + 1, "api", params)
       IN  IF body.ok
           THEN IF \E i \in 1..Len(inflight) :
                       /\ inflight[i].origin = "api"
                       /\ inflight[i].form = params
                       /\ inflight[i].pc = "fetching"
                THEN UNCHANGED <<inflight, netCount, lastCall, lastDone>>
                ELSE /\ inflight' = Append(inflight, op)
                     /\ netCount' = netCount + 1
                     /\ lastCall' = Call(submits + 1, variant, body.value)
                     /\ UNCHANGED lastDone
           ELSE /\ lastDone' = [op EXCEPT !.pc = "failed", !.result = body]
                /\ UNCHANGED <<inflight, netCount, lastCall>>
    /\ UNCHANGED <<variant, apiKey, apiSecret, shown, btnDisabled,
                   currentRequest, toast, errorMessage, displayed, lastSubmit,
                   vForm, vResult, cacheVars, auxVars>>

\* astronomyAPI.generateStarChart(params) up to fetch(); getAuthHeader()
\* throws when no credentials are set
generateStarChart(params) ==
    /\ variant = "modern"
    /\ submits < MaxSubmits
    /\ submits' = submits + 1
    /\ LET body == IF StarChartRequestBody(params).ok /\ ~hasCredentials
                   THEN Fail(Error("API credentials not set"))
                   ELSE StarChartRequestBody(params)
           op == Operation(submits + 1, "api", params)
       IN  IF body.ok
           THEN /\ inflight' = Append(inflight, op)
                /\ netCount' = netCount + 1
                /\ lastCall' = Call(submits + 1, variant, body.value)
                /\ UNCHANGED lastDone
           ELSE /\ lastDone' = [op EXCEPT !.pc = "failed", !.result = body]
                /\ UNCHANGED <<inflight, netCount, lastCall>>
    /\ UNCHANGED <<variant, apiKey, apiSecret, shown, btnDisabled,
                   currentRequest, toast, errorMessage, displayed, lastSubmit,
                   vForm, vResult, cacheVars, auxVars>>

\* the direct call resumes when fetch() settles and returns or throws
generateStarChartSettles(i, response) ==
    /\ i \in 1..Len(inflight)
    /\ inflight[i].pc = "fetching"
    /\ inflight[i].origin = "api"
    /\ LET result == ChartResult(variant, response)
       IN  lastDone' = [inflight[i] EXCEPT
                           !.response = response, !.result = result,
                           !.pc = IF result.ok THEN "returned" ELSE "failed"]
    /\ inflight' = Remove(inflight, i)
    /\ UNCHANGED <<variant, apiKey, apiSecret, shown, btnDisabled,
                   currentRequest, toast, errorMessage, displayed, netCount,
                   lastCall, submits, lastSubmit, vForm, vResult, cacheVars, auxVars>>

\* ------------------------------------------------------------------------
\* The legacy AstronomyExplorer (second class of main.js)
\* ------------------------------------------------------------------------

\* the catch block of the legacy generateStarChart: title and details
LegacyErrorDisplay(error) ==
    IF error.cause
    THEN CASE error.status = 401 ->
                [title |-> "Credenciais invalidas",
                 details |-> Text("Verifique se sua Application ID e Application Secret estao corretas.")]
           [] error.status = 429 ->
                [title |-> "Limite de requisicoes excedido",
                 details |-> Text("Aguarde alguns minutos antes de tentar novamente.")]
           [] error.status >= 500 ->
                [title |-> "Erro no servidor da API",
                 details |-> Text("O servidor da Astronomy API esta temporariamente indisponivel.")]
           [] OTHER ->
                [title |-> error.message,
                 details |-> [kind |-> "cause", status |-> error.status,
                              statusText |-> error.statusText,
                              details |-> error.details]]
    ELSE IF error.name = "TypeError" /\ includes(error.message, "fetch")
    THEN [title |-> "Erro de conexao",
          details |-> Text("Verifique sua conexao com a internet e tente novamente.")]
    ELSE [title |-> error.message,
          details |-> [kind |-> "stack", text |-> error.message]]

\* the legacy showError(title, message): the title is not displayed
LegacyShowError(title, message) ==
    /\ shown' = [AllHidden EXCEPT !.error = TRUE]
    /\ errorMessage' = message
    /\ btnDisabled' = FALSE

\* the legacy handleSubmit up to fetch()
LegacyHandleSubmit(form) ==
    /\ variant = "legacy"
    /\ submits < MaxSubmits
    /\ submits' = submits + 1
    /\ IF ~hasCredentials
       THEN /\ LegacyShowError("Credenciais da API nao configuradas",
                               Text("Por favor, configure suas credenciais da Astronomy API na secao de configuracao abaixo."))
            /\ lastSubmit' = Submitted(form, "no_credentials", "")
            /\ UNCHANGED <<inflight, netCount, lastCall, lastDone>>
       ELSE IF ~LegacyRequiredFields(form).valid
       THEN /\ LegacyShowError("Campos obrigatorios",
                               Text(LegacyRequiredFields(form).message))
            /\ lastSubmit' = Submitted(form, "invalid",
                                       LegacyRequiredFields(form).message)
            /\ UNCHANGED <<inflight, netCount, lastCall, lastDone>>
       ELSE LET body == LegacyRequestBody(form.constellation, form.style,
                                          form.location, form.date)
                op == Operation(submits + 1, "submit", form)
            IN  IF body.ok
                THEN /\ shown' = [AllHidden EXCEPT !.loading = TRUE]
                     /\ btnDisabled' = TRUE
                     /\ inflight' = Append(inflight, op)
                     /\ netCount' = netCount + 1
                     /\ lastCall' = Call(submits + 1, variant, body.value)
                     /\ lastSubmit' = Submitted(form, "sent", "")
                     /\ UNCHANGED <<errorMessage, lastDone>>
                ELSE /\ LegacyShowError(LegacyErrorDisplay(body.error).title,
                                        LegacyErrorDisplay(body.error).details)
                     /\ lastSubmit' = Submitted(form, "thrown",
                                                body.error.message)
                     /\ lastDone' = [op EXCEPT !.pc = "failed",
                                               !.result = body]
                     /\ UNCHANGED <<inflight, netCount, lastCall>>
    /\ UNCHANGED <<variant, apiKey, apiSecret, currentRequest, toast,
                   displayed, vForm, vResult, cacheVars, auxVars>>

\* the legacy generateStarChart resumes when fetch() settles: displayResults
\* at once on success, the catch block otherwise, the finally block in both
LegacyRespond(i, response) ==
    /\ variant = "legacy"
    /\ i \in 1..Len(inflight)
    /\ inflight[i].pc = "fetching"
    /\ LET result == LegacyResponse(response)
           op == [inflight[i] EXCEPT !.response = response,
                                     !.result = result]
       IN  IF result.ok
           THEN /\ shown' = [AllHidden EXCEPT !.results = TRUE, !.info = TRUE]
                /\ displayed' = [imageUrl |-> result.value.data.imageUrl,
                                 request |-> op.form, id |-> op.id]
                /\ toast' = "Gerado com sucesso!"
                /\ btnDisabled' = FALSE
                /\ lastDone' = [op EXCEPT !.pc = "displayed"]
                /\ UNCHANGED errorMessage
           ELSE /\ LegacyShowError(LegacyErrorDisplay(result.error).title,
                                   LegacyErrorDisplay(result.error).details)
                /\ lastDone' = [op EXCEPT !.pc = "failed"]
                /\ UNCHANGED <<toast, displayed>>
    /\ inflight' = Remove(inflight, i)
    /\ UNCHANGED <<variant, apiKey, apiSecret, currentRequest, netCount,
                   lastCall, submits, lastSubmit, vForm, vResult, cacheVars, auxVars>>

\* ------------------------------------------------------------------------
\* retrySearch
\* ------------------------------------------------------------------------
\* retrySearch sending the last request again
retrySearch_Resends ==
    /\ shown # AllHidden \/ (variant # "modern" /\ btnDisabled)
    /\ shown' = AllHidden
    /\ IF variant = "modern" THEN UNCHANGED btnDisabled
       ELSE btnDisabled' = FALSE
    /\ IF variant = "legacy" THEN UNCHANGED toast
       ELSE toast' = "Pronto para nova busca!"
    /\ netCount' = IF lastCall = None THEN netCount ELSE netCount + 1
    /\ UNCHANGED <<variant, apiKey, apiSecret, currentRequest, errorMessage,
                   displayed, inflight, lastCall, submits, lastSubmit,
                   lastDone, vForm, vResult, cacheVars, auxVars>>

\* retrySearch(): hide the sections and reset the progress; the form stays
\* as it is for the user to submit
retrySearch ==
    /\ shown # AllHidden \/ (variant # "modern" /\ btnDisabled)
    /\ shown' = AllHidden
    /\ IF variant = "modern" THEN UNCHANGED btnDisabled
       ELSE btnDisabled' = FALSE
    /\ IF variant = "legacy" THEN UNCHANGED toast
       ELSE toast' = "Pronto para nova busca!"
    /\ UNCHANGED <<variant, apiKey, apiSecret, currentRequest, errorMessage,
                   displayed, inflight, netCount, lastCall, submits,
                   lastSubmit, lastDone, vForm, vResult, cacheVars, auxVars>>

Next ==
    \/ \E form \in FormsOf(variant) : handleSubmit(form)
    \/ \E i \in 1..Len(inflight), response \in Responses : Respond(i, response)
    \/ \E i \in 1..Len(inflight) : displayResults(i)
    \/ \E params \in ApiParams : generateStarChart(params)
    \/ \E i \in 1..Len(inflight), response \in Responses :
           generateStarChartSettles(i, response)
    \/ \E form \in StarForms : LegacyHandleSubmit(form)
    \/ \E i \in 1..Len(inflight), response \in Responses :
           LegacyRespond(i, response)
    \/ retrySearch

Spec == Init /\ [][Next]_vars


\* ------------------------------------------------------------------------
\* The validation functions on every combination of the form fields
\* ------------------------------------------------------------------------
InitValidate ==
    /\ InitMachine
    /\ variant \in {"modern", "constellation", "moon"}
    /\ apiKey = ""
    /\ InitCache
    /\ InitAux
    /\ vForm \in (IF variant = "moon" THEN AllMoonForms ELSE AllStarForms)
    /\ vResult = None

\* validateFormData(formData) of the page
Validate ==
    /\ vResult = None
    /\ vResult' = ValidationOf(variant, vForm)
    /\ UNCHANGED <<variant, apiKey, apiSecret, shown, btnDisabled,
                   currentRequest, toast, errorMessage, displayed, inflight,
                   netCount, lastCall, submits, lastSubmit, lastDone, vForm,
                   cacheVars, auxVars>>

NextValidate == Validate

SpecValidate == InitValidate /\ [][NextValidate]_vars


\* ------------------------------------------------------------------------
\* The exported apiCache called by code of the caller's choice
\* ------------------------------------------------------------------------
CacheCall(op, key, fields) ==
    [n |-> cacheOps + 1, op |-> op, key |-> key, at |-> now] @@ fields

\* apiCache.set(key, data)
CacheSet(key, data) ==
    /\ cacheOps < MaxCacheOps
    /\ cacheOps' = cacheOps + 1
    /\ cache' = set(cache, key, data, now)
    /\ written' = [written EXCEPT ![key] = [data |-> data, at |-> now]]
    /\ cacheOp' = CacheCall("set", key, [data |-> data])
    /\ UNCHANGED <<variant, apiKey, apiSecret, shown, btnDisabled,
                   currentRequest, toast, errorMessage, displayed, inflight,
                   netCount, lastCall, submits, lastSubmit, lastDone, vForm,
                   vResult, auxVars, now>>

\* apiCache.get(key)
CacheGet(key) ==
    /\ cacheOps < MaxCacheOps
    /\ cacheOps' = cacheOps + 1
    /\ cache' = get(cache, key, now).cache
    /\ cacheOp' = CacheCall("get", key,
                            [value |-> get(cache, key, now).value,
                             evicted |-> get(cache, key, now).cache # cache])
    /\ UNCHANGED <<variant, apiKey, apiSecret, shown, btnDisabled,
                   currentRequest, toast, errorMessage, displayed, inflight,
                   netCount, lastCall, submits, lastSubmit, lastDone, vForm,
                   vResult, auxVars, now, written>>

\* apiCache.clear()
CacheClear ==
    /\ cacheOps < MaxCacheOps
    /\ cacheOps' = cacheOps + 1
    /\ cache' = clear(cache)
    /\ written' = [k \in CacheKeys |-> None]
    /\ cacheOp' = CacheCall("clear", "", [removed |-> DOMAIN cache])
    /\ UNCHANGED <<variant, apiKey, apiSecret, shown, btnDisabled,
                   currentRequest, toast, errorMessage, displayed, inflight,
                   netCount, lastCall, submits, lastSubmit, lastDone, vForm,
                   vResult, auxVars, now>>

\* apiCache.clearExpired()
CacheClearExpired ==
    /\ cacheOps < MaxCacheOps
    /\ cacheOps' = cacheOps + 1
    /\ cache' = clearExpired(cache, now)
    /\ cacheOp' = CacheCall("clearExpired", "",
                            [removed |-> DOMAIN cache
                                         \ DOMAIN clearExpired(cache, now)])
    /\ UNCHANGED <<variant, apiKey, apiSecret, shown, btnDisabled,
                   currentRequest, toast, errorMessage, displayed, inflight,
                   netCount, lastCall, submits, lastSubmit, lastDone, vForm,
                   vResult, auxVars, now, written>>

\* a millisecond passes: Date.now() grows
Tick ==
    /\ now < MaxNow
    /\ now' = now + 1
    /\ UNCHANGED <<variant, apiKey, apiSecret, shown, btnDisabled,
                   currentRequest, toast, errorMessage, displayed, inflight,
                   netCount, lastCall, submits, lastSubmit, lastDone, vForm,
                   vResult, auxVars, cache, written, cacheOp, cacheOps>>

InitCacheOnly ==
    /\ InitMachine
    /\ InitCache
    /\ InitAux
    /\ variant = "modern"
    /\ apiKey = ""
    /\ vForm = None
    /\ vResult = None

NextCache ==
    \/ \E key \in CacheKeys, data \in CacheData : CacheSet(key, data)
    \/ \E key \in CacheKeys : CacheGet(key)
    \/ CacheClear
    \/ CacheClearExpired
    \/ Tick

SpecCache == InitCacheOnly /\ [][NextCache]_vars


\* ------------------------------------------------------------------------
\* request(endpoint, options) of the exported client called with options of
\* the caller's choice
\* ------------------------------------------------------------------------
JsObject(fields) == [t |-> "object", fields |-> fields]

RequestOptionsOf(method, body, headers) ==
    [method |-> method, body |-> body, headers |-> headers]

BearerAuth == [scheme |-> "Bearer", credentials |-> <<"token">>]

\* the options objects passed; Undefined and JsUndef stand for a property
\* the object does not have
RequestOptions ==
    {RequestOptionsOf(Undefined, Undefined, JsUndef),
     RequestOptionsOf("POST", "{}", JsUndef),
     RequestOptionsOf("POST", "{}", JsObject(EmptyObject)),
     RequestOptionsOf(Undefined, Undefined, JsObject([XCustom |-> "1"])),
     RequestOptionsOf("POST", "{}",
                      JsObject([ContentType |-> "text/plain"])),
     RequestOptionsOf(Undefined, Undefined,
                      JsObject([Authorization |-> BearerAuth]))}

\* { ...defaultOptions.headers, ...options.headers }
MergeHeaders(defaults, headers) ==
    [k \in DOMAIN defaults \cup DOMAIN headers |->
        IF k \in DOMAIN headers THEN headers[k] ELSE defaults[k]]

\* requestOptions of request(): { ...defaultOptions, ...options }, then the
\* headers merged when options.headers is set
RequestCall(id, v, options) ==
    [id |-> id, endpoint |-> Endpoint(v),
     method |-> IF options.method = Undefined THEN "GET" ELSE options.method,
     headers |-> IF options.headers.t = "undefined" THEN DefaultHeaders(v)
                 ELSE MergeHeaders(DefaultHeaders(v), options.headers.fields),
     body |-> options.body]

\* client.request(endpoint, options) up to fetch(); getAuthHeader() of
\* api.js throws when no credentials are set
requestCall(options) ==
    /\ variant \in {"modern", "constellation", "moon"}
    /\ submits < MaxSubmits
    /\ submits' = submits + 1
    /\ LET op == Operation(submits + 1, "request", options)
       IN  IF variant = "modern" /\ ~hasCredentials
           THEN /\ lastDone' =
                       [op EXCEPT !.pc = "failed",
                                  !.result =
                                      Fail(Error("API credentials not set"))]
                /\ UNCHANGED <<inflight, netCount, lastCall>>
           ELSE /\ inflight' = Append(inflight, op)
                /\ netCount' = netCount + 1
                /\ lastCall' = RequestCall(submits + 1, variant, options)
                /\ UNCHANGED lastDone
    /\ UNCHANGED <<variant, apiKey, apiSecret, shown, btnDisabled,
                   currentRequest, toast, errorMessage, displayed, lastSubmit,
                   vForm, vResult, cacheVars, auxVars>>

\* request() resumes when fetch() settles and returns the decoded body or
\* throws
requestSettles(i, response) ==
    /\ i \in 1..Len(inflight)
    /\ inflight[i].pc = "fetching"
    /\ inflight[i].origin = "request"
    /\ LET result == IF variant = "moon" THEN MoonRequest(response)
                     ELSE request(response)
       IN  lastDone' = [inflight[i] EXCEPT
                           !.response = response, !.result = result,
                           !.pc = IF result.ok THEN "returned" ELSE "failed"]
    /\ inflight' = Remove(inflight, i)
    /\ UNCHANGED <<variant, apiKey, apiSecret, shown, btnDisabled,
                   currentRequest, toast, errorMessage, displayed, netCount,
                   lastCall, submits, lastSubmit, vForm, vResult, cacheVars, auxVars>>

NextRequest ==
    \/ \E options \in RequestOptions : requestCall(options)
    \/ \E i \in 1..Len(inflight), response \in Responses :
           requestSettles(i, response)

SpecRequest == Init /\ [][NextRequest]_vars


\* ------------------------------------------------------------------------
\* The user message of an error, for every status
\* ------------------------------------------------------------------------
MessageStatuses ==
    {0, 400, 401, 403, 404, 422, 429, 500, 501, 502, 503, 504, 599}

ErrorMessages == {"", "API Error"}

\* the errors the catch block of the variant's page is handed
ErrorsOf(v) ==
    IF v = "legacy"
    THEN {ErrorWithCause(m, st, "", EmptyObject) :
              m \in ErrorMessages, st \in MessageStatuses \ {0}}
         \cup {TypeError(m) : m \in FetchFailureMessages}
    ELSE {APIError(m, st, "", EmptyObject) :
              m \in ErrorMessages, st \in MessageStatuses}

InitUserMessage ==
    /\ InitMachine
    /\ InitCache
    /\ InitAux
    /\ apiKey = ""
    /\ vForm \in ErrorsOf(variant)
    /\ vResult = None

\* error.getUserMessage() as handleSubmit calls it; the legacy class picks
\* the message inside the catch block of generateStarChart
UserMessage ==
    /\ vResult = None
    /\ vResult' = [message |->
                      IF variant = "legacy"
                      THEN LegacyErrorDisplay(vForm).title
                      ELSE UserMessageOf(variant, vForm)]
    /\ UNCHANGED <<variant, apiKey, apiSecret, shown, btnDisabled,
                   currentRequest, toast, errorMessage, displayed, inflight,
                   netCount, lastCall, submits, lastSubmit, lastDone, vForm,
                   cacheVars, auxVars>>

NextUserMessage == UserMessage

SpecUserMessage == InitUserMessage /\ [][NextUserMessage]_vars


\* ------------------------------------------------------------------------
\* Properties
\* ------------------------------------------------------------------------

\* the chart operations the state still records
OpsSeen ==
    {inflight[i] : i \in 1..Len(inflight)}
    \cup (IF lastDone = None THEN {} ELSE {lastDone})

\* those for which fetch() has settled
Answered == {op \in OpsSeen : op.response # None}

InRange(n, lo, hi) == ~n.nan /\ ~NumLt(n, lo) /\ ~NumGt(n, hi)

StarBodiesWithImage == {"{data:{imageUrl:'u1'}}"}
MoonBodiesWithImage == {"{imageUrl:'u1'}"}

\* a 2xx response whose body decodes but holds no non-empty image URL at the
\* place the variant expects it
LacksImage(op) ==
    /\ op.response.kind = "http"
    /\ op.response.status \in 200..299
    /\ op.response.body # "<html>"
    /\ op.response.body \notin (IF variant = "moon" THEN MoonBodiesWithImage
                                ELSE StarBodiesWithImage)

\* C1: a 2xx response whose decoded body lacks a non-empty image URL makes
\* the chart operation fail, and its submit never reaches displayResults
C1_NoImageNeverSucceeds ==
    \A op \in Answered :
        LacksImage(op) =>
            /\ op.pc = "failed"
            /\ ~op.result.ok
            /\ displayed # None => displayed.id # op.id

C1_Witness ==
    /\ lastDone # None
    /\ lastDone.response # None
    /\ lastDone.origin = "submit"
    /\ LacksImage(lastDone)
    /\ lastDone.response.body = "{data:{imageUrl:''}}"
    /\ shown.error

C2_Details(body) ==
    CASE body = "{error:'bad'}" -> [error |-> "bad"]
      [] body = "{errors:'bad'}" -> [errors |-> "bad"]
      [] OTHER -> EmptyObject

\* C2: on a non-2xx status request() fails with an APIError carrying the
\* status and statusText of the response and the decoded error body, or the
\* empty object when the body cannot be decoded
C2_NonOkIsAPIError ==
    \A op \in Answered :
        (/\ variant # "legacy"
         /\ op.response.kind = "http"
         /\ op.response.status \notin 200..299) =>
            /\ ~op.result.ok
            /\ op.result.error.name = "APIError"
            /\ op.result.error.status = op.response.status
            /\ op.result.error.statusText = op.response.statusText
            /\ op.result.error.details = C2_Details(op.response.body)

C2_Witness ==
    /\ lastDone # None
    /\ lastDone.response # None
    /\ lastDone.response.kind = "http"
    /\ lastDone.response.status = 401
    /\ lastDone.response.body = "{error:'bad'}"
    /\ lastDone.result.error.details = [error |-> "bad"]

\* C3: on a transport failure request() fails with an APIError of status 0,
\* statusText "Network Error" and details {originalError}, in every client
\* variant
C3_TransportFailureIsNetworkError ==
    \A op \in Answered :
        (variant # "legacy" /\ op.response.kind = "failure") =>
            /\ ~op.result.ok
            /\ op.result.error.name = "APIError"
            /\ op.result.error.status = 0
            /\ op.result.error.statusText = "Network Error"
            /\ op.result.error.details =
                   [originalError |-> op.response.message]

\* the form holds a latitude or longitude that parses to a number outside
\* [-90,90] or [-180,180]
OutOfRangeForm(form) ==
    IF variant = "moon"
    THEN \/ ~isNaN(parseFloat(form.latitude))
            /\ ~InRange(parseFloat(form.latitude), -90, 90)
         \/ ~isNaN(parseFloat(form.longitude))
            /\ ~InRange(parseFloat(form.longitude), -180, 180)
    ELSE LET parts == Split(form.location, ",")
         IN  /\ Len(parts) = 2
             /\ ~isNaN(parseFloat(Trim(parts[1])))
             /\ ~isNaN(parseFloat(Trim(parts[2])))
             /\ \/ ~InRange(parseFloat(Trim(parts[1])), -90, 90)
                \/ ~InRange(parseFloat(Trim(parts[2])), -180, 180)

\* C4: on every form-submit path a latitude outside [-90,90] or a longitude
\* outside [-180,180] ends the submit without a network call
C4_OutOfRangeNeverSent ==
    (lastSubmit # None /\ OutOfRangeForm(lastSubmit.form)) =>
        lastSubmit.outcome # "sent"

\* C5: every network call of a chart operation carries subject, style and
\* date, a latitude in [-90,90] and a longitude in [-180,180], whatever the
\* caller passed
C5_PayloadAlwaysInRange ==
    lastCall # None =>
        /\ lastCall.body.observer.date # <<>>
        /\ InRange(parseFloat(lastCall.body.observer.latitude), -90, 90)
        /\ InRange(parseFloat(lastCall.body.observer.longitude), -180, 180)
        /\ variant # "moon" =>
               /\ lastCall.body.style # ""
               /\ lastCall.body.view.parameters.constellation # ""

\* the message validateFormData of the constellation form is to report, by
\* the order of the checks; "" when every check passes
C6_Expected(f) ==
    LET parts == Split(f.location, ",")
        unparsable ==
            IF Len(parts) # 2 THEN TRUE
            ELSE isNaN(parseFloat(Trim(parts[1])))
                 \/ isNaN(parseFloat(Trim(parts[2])))
        outOfRange ==
            /\ ~unparsable
            /\ \/ ~InRange(parseFloat(Trim(parts[1])), -90, 90)
               \/ ~InRange(parseFloat(Trim(parts[2])), -180, 180)
    IN  IF f.constellation = "" THEN MsgConstellation
        ELSE IF f.style = "" THEN MsgStyle
        ELSE IF f.location = <<>> THEN MsgLocation
        ELSE IF f.date = <<>> THEN MsgDate
        ELSE IF f.date \notin {GoodDate} THEN MsgDateFormat
        ELSE IF unparsable THEN MsgCoordinates
        ELSE IF outOfRange THEN MsgCoordinates
        ELSE ""

\* C6: validateFormData of the constellation form reports the first failing
\* check in the order constellation, style, location, date, date format,
\* coordinates unparsable, coordinates out of range, and is valid only when
\* every check passes
C6_FirstFailingCheck ==
    (variant \in {"modern", "constellation"} /\ vResult # None) =>
        /\ vResult.message = C6_Expected(vForm)
        /\ vResult.valid <=> C6_Expected(vForm) = ""

C6_Witness ==
    /\ variant \in {"modern", "constellation"}
    /\ vResult # None
    /\ vForm.constellation = "ori"
    /\ vForm.style = ""
    /\ vForm.date = SlashDate
    /\ vForm.location = LocLatHigh
    /\ vResult = Invalid(MsgStyle)

\* C7: validateFormData of the moon form reports a missing or ill-formatted
\* date in preference to an unparsable coordinate, and an unparsable
\* coordinate in preference to one out of range
C7_MoonDateBeforeCoordinates ==
    (variant = "moon" /\ vResult # None) =>
        LET unparsable == \/ isNaN(parseFloat(vForm.latitude))
                          \/ isNaN(parseFloat(vForm.longitude))
        IN  /\ vForm.date = <<>> => vResult.message = MsgDate
            /\ (vForm.date # <<>> /\ vForm.date # GoodDate) =>
                   vResult.message = MsgDateFormat
            /\ (vForm.date = GoodDate /\ unparsable) =>
                   vResult.message \in {MsgLatitude, MsgLongitude}

\* C8: a submit whose validation fails issues no network call, builds no
\* payload and leaves currentRequest as it was
C8_InvalidSubmitSendsNothing ==
    [][(lastSubmit' # lastSubmit /\ lastSubmit'.outcome = "invalid") =>
           /\ netCount' = netCount
           /\ lastCall' = lastCall
           /\ inflight' = inflight
           /\ currentRequest' = currentRequest]_vars

C8_Witness ==
    /\ variant = "modern"
    /\ lastSubmit # None
    /\ lastSubmit.outcome = "invalid"
    /\ lastSubmit.n = 2
    /\ lastSubmit.form.constellation = ""
    /\ netCount = 1
    /\ currentRequest # None
    /\ currentRequest.constellation = "ori"

\* C9: the JSON body sent for a validated form carries the style code, the
\* numbers parsed from the location string, the date string unchanged, the
\* view type "constellation" and the subject code
C9_PayloadMatchesInput ==
    (/\ variant # "moon"
     /\ lastCall # None
     /\ lastSubmit # None
     /\ lastSubmit.outcome = "sent"
     /\ lastSubmit.n = lastCall.id) =>
        LET form == lastSubmit.form
            parts == Split(form.location, ",")
            body == lastCall.body
        IN  /\ body.style = form.style
            /\ parseFloat(body.observer.latitude) = parseFloat(Trim(parts[1]))
            /\ parseFloat(body.observer.longitude) = parseFloat(Trim(parts[2]))
            /\ body.observer.date = form.date
            /\ body.view.type = "constellation"
            /\ body.view.parameters.constellation = form.constellation

C9_Witness ==
    /\ variant = "modern"
    /\ lastCall # None
    /\ lastSubmit # None
    /\ lastSubmit.outcome = "sent"
    /\ lastSubmit.n = lastCall.id
    /\ lastSubmit.form.location = LocAtlanta
    /\ lastCall.body.observer.longitude = <<"-", "8", "4", ".", "0", "5">>

CredentialMessage ==
    "Credenciais da API invalidas. Verifique sua Application ID e Secret."

\* C10: a 401 answer to a submit's request reaches handleSubmit as an
\* APIError of status 401, and the user is shown the credential message
C10_UnauthorizedShowsCredentialMessage ==
    [][(/\ variant # "legacy"
        /\ lastDone' # lastDone
        /\ lastDone'.origin = "submit"
        /\ lastDone'.response # None
        /\ lastDone'.response.kind = "http"
        /\ lastDone'.response.status = 401) =>
           /\ lastDone'.pc = "failed"
           /\ lastDone'.result.error.name = "APIError"
           /\ lastDone'.result.error.status = 401
           /\ toast' = CredentialMessage
           /\ shown'.error]_vars


\* the message the claim assigns to a status; "" where it assigns none
C11_Expected(v, status) ==
    CASE status = 401 ->
           "Credenciais da API invalidas. Verifique sua Application ID e Secret."
      [] status = 403 ->
           "Acesso negado. Verifique suas permissoes da API."
      [] status = 429 ->
           "Limite de requisicoes excedido. Tente novamente em alguns minutos."
      [] status = 422 ->
           "Dados invalidos enviados para a API. Verifique os parametros."
      [] status \in 500..599 ->
           "Erro no servidor da API. Tente novamente mais tarde."
      [] status = 0 ->
           IF v = "moon"
           THEN "Erro de CORS: O metodo OPTIONS nao esta configurado corretamente na API."
           ELSE "Erro de conexao. Verifique sua internet e tente novamente."
      [] OTHER -> ""

\* C11: getUserMessage answers 401 and 403 with the credential and the
\* permission message, 429 with the rate-limit message, 422 with the
\* bad-parameters message, every status in 500..599 with the upstream-outage
\* message and 0 with the transport message, in every variant of APIError
C11_MessageByStatusRange ==
    (/\ variant # "legacy"
     /\ vResult # None
     /\ "status" \in DOMAIN vForm
     /\ C11_Expected(variant, vForm.status) # "") =>
        vResult.message = C11_Expected(variant, vForm.status)

\* C12: a network call is issued only by a new submit or a new call of the
\* client, one call each; the answer to a request, whatever it is, and
\* retrySearch issue none
C12_NoAutomaticRetry ==
    [][/\ netCount' \in {netCount, netCount + 1}
       /\ netCount' # netCount =>
              /\ submits' = submits + 1
              /\ Len(inflight') = Len(inflight) + 1
              /\ lastCall'.id = submits']_vars

C12_Witness ==
    /\ variant \in {"modern", "constellation", "moon"}
    /\ lastDone # None
    /\ lastDone.origin = "submit"
    /\ lastDone.pc = "failed"
    /\ lastDone.response # None
    /\ lastDone.response.kind = "http"
    /\ lastDone.response.status = 503
    /\ toast = "Pronto para nova busca!"
    /\ shown = AllHidden
    /\ inflight = <<>>
    /\ submits = 1
    /\ netCount = 1

\* C13: every network call of request() carries the Basic Authorization
\* header built from the client's credentials and the JSON Content-Type and
\* Accept headers, whatever options the caller passed, and no call is issued
\* while the credentials are not set
C13_HeadersAlwaysAttached ==
    /\ lastCall # None =>
           /\ lastCall.headers.Authorization = AuthOf(variant)
           /\ lastCall.headers.Authorization.scheme = "Basic"
           /\ lastCall.headers.ContentType = "application/json"
           /\ lastCall.headers.Accept = "application/json"
    /\ (variant = "modern" /\ ~hasCredentials) => netCount = 0

\* C14: when the request of a submit fails, by an APIError, a missing image
\* or any other error thrown, the step that ends the submit leaves the error
\* section shown and the loading and results sections hidden
C14_FailureAlwaysShown ==
    [][(/\ lastDone' # lastDone
        /\ lastDone'.origin = "submit"
        /\ lastDone'.pc = "failed") =>
           /\ shown'.error
           /\ ~shown'.loading
           /\ ~shown'.results]_vars

\* C15: get(key) returns the value of the last set(key, value) when at most
\* maxAge has elapsed since that set and no later set or clear touched the
\* key, and null once more than maxAge has elapsed
C15_CacheRoundTrip ==
    (/\ cacheOp # None
     /\ cacheOp.op = "get"
     /\ written[cacheOp.key] # None) =>
        cacheOp.value =
            IF cacheOp.at - written[cacheOp.key].at <= maxAge
            THEN Returned(written[cacheOp.key].data)
            ELSE JsonNull

C15_Witness ==
    /\ cacheOp # None
    /\ cacheOp.op = "get"
    /\ written[cacheOp.key] # None
    /\ cacheOp.at - written[cacheOp.key].at = maxAge
    /\ written[cacheOp.key].at > 0
    /\ cacheOp.value = Returned("d2")

\* C16: a get(key) that finds an entry older than maxAge removes that entry
\* and nothing else; a get of a missing or non-expired key leaves the Map as
\* it was
C16_ExpiredGetEvictsOnlyThatKey ==
    [][(cacheOps' # cacheOps /\ cacheOp'.op = "get") =>
           LET key == cacheOp'.key
           IN  IF key \in DOMAIN cache /\ now - cache[key].timestamp > maxAge
               THEN /\ DOMAIN cache' = DOMAIN cache \ {key}
                    /\ \A k \in DOMAIN cache' : cache'[k] = cache[k]
               ELSE cache' = cache]_vars

C16_Witness ==
    /\ cacheOp # None
    /\ cacheOp.op = "get"
    /\ cacheOp.evicted
    /\ cacheOp.value = JsonNull
    /\ cacheOp.key \notin DOMAIN cache
    /\ \E k \in DOMAIN cache : now - cache[k].timestamp > maxAge

\* C17: clearExpired() removes every entry older than maxAge and no other
\* entry, and leaves the value and the timestamp of each entry it keeps
C17_SweepRemovesExactlyExpired ==
    [][(cacheOps' # cacheOps /\ cacheOp'.op = "clearExpired") =>
           /\ DOMAIN cache' =
                  {k \in DOMAIN cache : ~(now - cache[k].timestamp > maxAge)}
           /\ \A k \in DOMAIN cache' : cache'[k] = cache[k]]_vars

C17_Witness ==
    /\ cacheOp # None
    /\ cacheOp.op = "clearExpired"
    /\ cacheOp.removed # {}
    /\ cacheOp.at = now
    /\ \E k \in DOMAIN cache : now - cache[k].timestamp = maxAge

\* C18: set(key, value) leaves every entry under another key as it was and
\* adds the key when it is new, whatever the number of entries; the number
\* of entries decreases only in a get, a clearExpired or a clear
C18_SetNeverEvicts ==
    [][/\ (cacheOps' # cacheOps /\ cacheOp'.op = "set") =>
              /\ DOMAIN cache' = DOMAIN cache \cup {cacheOp'.key}
              /\ \A k \in DOMAIN cache \ {cacheOp'.key} : cache'[k] = cache[k]
       /\ Cardinality(DOMAIN cache') < Cardinality(DOMAIN cache) =>
              /\ cacheOps' # cacheOps
              /\ cacheOp'.op \in {"get", "clearExpired", "clear"}]_vars

C18_Witness ==
    /\ cacheOp # None
    /\ cacheOp.op = "set"
    /\ cacheOp.at = now
    /\ DOMAIN cache = CacheKeys
    /\ \E k \in DOMAIN cache : now - cache[k].timestamp > maxAge

\* C19: in the api.js variant a chart request with the parameters of an
\* earlier successful request, made less than maxAge after it, is answered
\* from the cache: no network call is issued for it
C19_RepeatServedFromCache ==
    [][(/\ variant = "modern"
        /\ lastDone # None
        /\ lastDone.pc \in {"displayed", "returned"}
        /\ now < maxAge
        /\ netCount' # netCount) =>
           LET new == inflight'[Len(inflight')]
           IN  ~(new.origin = lastDone.origin /\ new.form = lastDone.form)]_vars

\* the operations waiting for fetch() to settle
Fetching == {i \in 1..Len(inflight) : inflight[i].pc = "fetching"}

\* C20: a chart request issues its own network call whatever is in flight,
\* also when a request with the same parameters has not completed, and an
\* answer completes one operation only: no request waits for or shares the
\* result of another
C20_NoDeduplication ==
    [][/\ (/\ submits' = submits + 1
           /\ lastDone' = lastDone
           /\ lastSubmit' = lastSubmit \/ lastSubmit'.outcome = "sent") =>
              /\ netCount' = netCount + 1
              /\ Len(inflight') = Len(inflight) + 1
              /\ SubSeq(inflight', 1, Len(inflight)) = inflight
              /\ inflight'[Len(inflight')].pc = "fetching"
              /\ lastCall'.id = inflight'[Len(inflight')].id
       /\ Cardinality(Fetching') >= Cardinality(Fetching) - 1]_vars

C20_Witness ==
    /\ netCount = 2
    /\ lastDone # None
    /\ lastDone.response # None
    /\ \E i \in 1..Len(inflight) :
           /\ inflight[i].form = lastDone.form
           /\ inflight[i].origin = lastDone.origin
           /\ inflight[i].pc = "fetching"
           /\ inflight[i].id > lastDone.id

\* ------------------------------------------------------------------------
\* APICache.generateKey on pairs of endpoints and parameter objects
\* ------------------------------------------------------------------------
\* A parameter object is the sequence of its members in the order in which
\* the caller wrote them.
ParamNames == {"a", "b", "1", "2"}

ParamValues == {1, 2}

Members == [name : ParamNames, value : ParamValues]

ObjectLiterals ==
    {<<>>} \cup {<<m>> : m \in Members}
           \cup {s \in Members \X Members : s[1].name # s[2].name}

KeyEndpoints == {<<"/", "a">>, <<"/", "b">>}

NamesOf(o) == [i \in 1..Len(o) |-> o[i].name]

MemberSet(o) == {o[i] : i \in 1..Len(o)}

\* A property name that is a canonical array index.
isArrayIndex(name) == name \in Digits

IsNamed(name) == ~isArrayIndex(name)

RECURSIVE Ascending(_)
Ascending(S) ==
    IF S = {} THEN <<>>
    ELSE LET m == CHOOSE x \in S : \A y \in S : DigitVal(x) <= DigitVal(y)
         IN <<m>> \o Ascending(S \ {m})

\* The order in which the engine enumerates an object's own properties:
\* array indices ascending, then the other names in insertion order.
OwnPropertyKeys(o) ==
    Ascending({n \in {o[i].name : i \in 1..Len(o)} : isArrayIndex(n)})
        \o SelectSeq(NamesOf(o), IsNamed)

ValueAt(o, name) == (CHOOSE m \in MemberSet(o) : m.name = name).value

RECURSIVE JsonMembers(_, _)
JsonMembers(o, keys) ==
    IF keys = <<>> THEN <<>>
    ELSE <<"\"", Head(keys), "\"", ":", DigitChar(ValueAt(o, Head(keys)))>>
         \o (IF Len(keys) > 1 THEN <<",">> ELSE <<>>)
         \o JsonMembers(o, Tail(keys))

\* JSON.stringify(params) for an object of number-valued members
JSONstringify(o) == <<"{">> \o JsonMembers(o, OwnPropertyKeys(o)) \o <<"}">>

\* One fixed listing of an object's members, whatever order they were
\* written in.
Canonical(o) == CHOOSE q \in ObjectLiterals : MemberSet(q) = MemberSet(o)

generateKey_Normalized(endpoint, params) ==
    endpoint \o <<":">> \o JSONstringify(Canonical(params))

generateKey(endpoint, params) ==
    endpoint \o <<":">> \o JSONstringify(params)

InitKey ==
    /\ InitMachine
    /\ variant = "modern"
    /\ apiKey = ""
    /\ InitCache
    /\ InitAux
    /\ vForm \in [e1 : KeyEndpoints, p1 : ObjectLiterals,
                  e2 : KeyEndpoints, p2 : ObjectLiterals]
    /\ vResult = None

\* apiCache.generateKey(e1, p1) and apiCache.generateKey(e2, p2)
GenerateKeys ==
    /\ vResult = None
    /\ vResult' = [k1 |-> generateKey(vForm.e1, vForm.p1),
                   k2 |-> generateKey(vForm.e2, vForm.p2)]
    /\ UNCHANGED <<variant, apiKey, apiSecret, shown, btnDisabled,
                   currentRequest, toast, errorMessage, displayed, inflight,
                   netCount, lastCall, submits, lastSubmit, lastDone, vForm,
                   cacheVars, auxVars>>

NextKey == GenerateKeys

SpecKey == InitKey /\ [][NextKey]_vars

KeysMade == vResult # None

SameMembersOtherOrder ==
    /\ MemberSet(vForm.p1) = MemberSet(vForm.p2)
    /\ vForm.p1 # vForm.p2

OutstandingSubmitCalls ==
    {i \in 1..Len(inflight) :
        inflight[i].origin = "submit" /\ inflight[i].pc = "fetching"}

\* C22: whenever a network call started by a form submit is outstanding, the
\* submit control is disabled.
C22_DisabledWhileOutstanding ==
    OutstandingSubmitCalls # {} => btnDisabled

\* ------------------------------------------------------------------------
\* The API credentials across saves and page loads (texts are sequences of
\* characters, so that trim() acts on them)
\* ------------------------------------------------------------------------
CredentialTexts == {<<>>, <<" ">>, <<"k">>, <<" ", "k", " ">>, <<"q">>}

\* localStorage.getItem(name): null when the item is absent
getItem(name) ==
    IF name \in DOMAIN storage
    THEN [null |-> FALSE, text |-> storage[name]]
    ELSE [null |-> TRUE, text |-> <<>>]

\* localStorage.setItem(name, text)
setItem(st, name, text) ==
    [n \in DOMAIN st \cup {name} |-> IF n = name THEN text ELSE st[n]]

Truthy(item) == ~item.null /\ item.text # <<>>

CredentialState ==
    [storage |-> storage, apiKey |-> apiKey, apiSecret |-> apiSecret]

CredentialOp(op) == [op |-> op, inputs |-> inputs, before |-> CredentialState]

InitCredentialsOnly ==
    /\ variant = "modern"
    /\ apiKey = <<>>
    /\ apiSecret = <<>>
    /\ shown = AllHidden
    /\ btnDisabled = FALSE
    /\ currentRequest = None
    /\ toast = ""
    /\ errorMessage = Text("")
    /\ displayed = None
    /\ inflight = <<>>
    /\ netCount = 0
    /\ lastCall = None
    /\ submits = 0
    /\ lastSubmit = None
    /\ lastDone = None
    /\ InitCache
    /\ InitAux
    /\ vForm = None
    /\ vResult = None

\* the user edits the #apiKey and #apiSecret inputs
TypeCredentials(key, secret) ==
    /\ inputs' = [apiKey |-> key, apiSecret |-> secret]
    /\ UNCHANGED <<variant, apiKey, apiSecret, shown, btnDisabled,
                   currentRequest, toast, errorMessage, displayed, inflight,
                   netCount, lastCall, submits, lastSubmit, lastDone, vForm,
                   vResult, cacheVars, storage, lastSaved, credOp, clock,
                   progressVars, themeVars, timerVars>>

\* saveApiCredentials() storing whenever the key is filled in
saveApiCredentials_KeyOnly ==
    LET key == Trim(inputs.apiKey)
        secret == Trim(inputs.apiSecret)
    IN  /\ credOp' = CredentialOp("save")
        /\ IF key = <<>>
           THEN /\ toast' = "Por favor, preencha ambos os campos da API."
                /\ UNCHANGED <<apiKey, apiSecret, storage, lastSaved>>
           ELSE /\ apiKey' = key
                /\ apiSecret' = secret
                /\ storage' = setItem(setItem(storage, "astronomy_api_key", key),
                                      "astronomy_api_secret", secret)
                /\ lastSaved' = IF secret = <<>> THEN lastSaved
                                ELSE [key |-> key, secret |-> secret]
                /\ toast' = "Credenciais da API salvas com sucesso!"
        /\ UNCHANGED <<variant, shown, btnDisabled, currentRequest,
                       errorMessage, displayed, inflight, netCount, lastCall,
                       submits, lastSubmit, lastDone, vForm, vResult,
                       cacheVars, inputs, clock, progressVars, themeVars,
                       timerVars>>

\* saveApiCredentials(): the click on the save button
saveApiCredentials ==
    LET key == Trim(inputs.apiKey)
        secret == Trim(inputs.apiSecret)
    IN  /\ credOp' = CredentialOp("save")
        /\ IF key = <<>> \/ secret = <<>>
           THEN /\ toast' = "Por favor, preencha ambos os campos da API."
                /\ UNCHANGED <<apiKey, apiSecret, storage, lastSaved>>
           ELSE /\ apiKey' = key
                /\ apiSecret' = secret
                /\ storage' = setItem(setItem(storage, "astronomy_api_key", key),
                                      "astronomy_api_secret", secret)
                /\ lastSaved' = [key |-> key, secret |-> secret]
                /\ toast' = "Credenciais da API salvas com sucesso!"
        /\ UNCHANGED <<variant, shown, btnDisabled, currentRequest,
                       errorMessage, displayed, inflight, netCount, lastCall,
                       submits, lastSubmit, lastDone, vForm, vResult,
                       cacheVars, inputs, clock, progressVars, themeVars,
                       timerVars>>

\* a page load: a new client without credentials and empty inputs, then
\* loadApiCredentials() from the constructor of the page
loadApiCredentials ==
    LET savedKey == getItem("astronomy_api_key")
        savedSecret == getItem("astronomy_api_secret")
    IN  /\ credOp' = CredentialOp("load")
        /\ IF Truthy(savedKey) /\ Truthy(savedSecret)
           THEN /\ apiKey' = savedKey.text
                /\ apiSecret' = savedSecret.text
                /\ inputs' = [apiKey |-> savedKey.text,
                              apiSecret |-> savedSecret.text]
                /\ toast' = "Credenciais da API carregadas!"
           ELSE /\ apiKey' = <<>>
                /\ apiSecret' = <<>>
                /\ inputs' = [apiKey |-> <<>>, apiSecret |-> <<>>]
                /\ toast' = ""
        /\ UNCHANGED <<variant, shown, btnDisabled, currentRequest,
                       errorMessage, displayed, inflight, netCount, lastCall,
                       submits, lastSubmit, lastDone, vForm, vResult,
                       cacheVars, storage, lastSaved, clock, progressVars,
                       themeVars, timerVars>>

NextCredentials ==
    \/ \E key \in CredentialTexts, secret \in CredentialTexts :
           TypeCredentials(key, secret)
    \/ saveApiCredentials
    \/ loadApiCredentials

SpecCredentials == InitCredentialsOnly /\ [][NextCredentials]_vars

LastSavedPair ==
    IF lastSaved = None THEN [key |-> <<>>, secret |-> <<>>] ELSE lastSaved

AfterCredentialOp(op) == credOp # None /\ credOp.op = op

\* C23: after loadApiCredentials the client holds the last pair saved with
\* both fields non-empty after trimming (no credentials when there was no
\* such save), and a save attempt with a field that is empty after trimming
\* changes neither the stored pair nor the client's credentials.
C23_LastGoodSaveSurvives ==
    /\ AfterCredentialOp("load") =>
           [key |-> apiKey, secret |-> apiSecret] = LastSavedPair
    /\ (/\ AfterCredentialOp("save")
        /\ (Trim(credOp.inputs.apiKey) = <<>>
                \/ Trim(credOp.inputs.apiSecret) = <<>>))
           => CredentialState = credOp.before

C23_Witness ==
    /\ AfterCredentialOp("load")
    /\ credOp.before.storage # NoItems
    /\ lastSaved = [key |-> <<"k">>, secret |-> <<"q">>]
    /\ apiKey = <<"k">>
    /\ apiSecret = <<"q">>

\* ------------------------------------------------------------------------
\* The request data shown with a result
\* ------------------------------------------------------------------------
JustDisplayed ==
    /\ variant \in {"modern", "constellation", "moon"}
    /\ displayed # None
    /\ lastDone # None
    /\ lastDone.pc = "displayed"
    /\ lastDone.id = displayed.id

\* C24: the request data shown with a result is the data of the submit
\* whose response supplied the displayed image URL.
C24_ShownRequestMatchesImage ==
    JustDisplayed =>
        displayed.request = CurrentRequestOf(variant, lastDone.form)

\* ------------------------------------------------------------------------
\* The sections of the page
\* ------------------------------------------------------------------------
ShownSections == {s \in {"loading", "results", "error"} : shown[s]}

\* C25: at most one of the loading, results and error sections carries
\* 'show', and the info section carries it only together with results.
C25_OneSectionAtATime ==
    /\ Cardinality(ShownSections) <= 1
    /\ shown.info => shown.results

C25_Witness ==
    /\ variant \in {"modern", "constellation"}
    /\ ShownSections = {"results"}
    /\ shown.info
    /\ submits = 2
    /\ lastDone # None
    /\ lastDone.pc = "displayed"
    /\ Len(inflight) = 1

\* ------------------------------------------------------------------------
\* request() on a 2xx response whose body is not JSON
\* ------------------------------------------------------------------------
UndecodableSuccess(op) ==
    /\ op # None
    /\ op.origin = "request"
    /\ op.response # None
    /\ op.response.kind = "http"
    /\ ResponseOk(op.response)
    /\ ~JsonDecodable(op.response.body)

\* C26: when the response has a 2xx status and a body that cannot be decoded
\* as JSON, request() fails with an APIError of status 0 and statusText
\* "Network Error"; it never returns a value and never reports the real
\* status.
C26_UndecodableBodyIsNetworkError ==
    (variant \in {"modern", "constellation"} /\ UndecodableSuccess(lastDone)) =>
        /\ ~lastDone.result.ok
        /\ lastDone.pc = "failed"
        /\ lastDone.result.error.name = "APIError"
        /\ lastDone.result.error.status = 0
        /\ lastDone.result.error.statusText = "Network Error"
        /\ lastDone.result.error.status # lastDone.response.status

C26_Witness ==
    /\ variant = "modern"
    /\ UndecodableSuccess(lastDone)
    /\ lastDone.response.status = 200
    /\ lastDone.response.body = "<html>"
    /\ ~lastDone.result.ok
    /\ lastDone.result.error.details = [originalError |-> SyntaxErrorMessage]

\* ------------------------------------------------------------------------
\* The progress bar of a chart operation.  One time unit is 100 ms and one
\* animation frame; progress values are kept in 1/135 of a percent, which
\* makes every value of the two animations an integer.
\* ------------------------------------------------------------------------
MaxFrames == 12

MaxCharts == 2

Full == 100 * 135

Percent(p) == p * 135

Min2(a, b) == IF a < b THEN a ELSE b

Max2(a, b) == IF a > b THEN a ELSE b

Cube(x) == x * x * x

\* Math.max(0, Math.min(100, value))
setProgress(value) == Max2(0, Min2(Full, value))

\* the closure of animateToProgress(targetValue, duration) called at clock
Animation(startValue, targetValue, duration) ==
    [startValue |-> startValue,
     difference |-> Percent(targetValue) - startValue,
     startTime |-> clock, duration |-> duration]

\* currentValue computed by animate(currentTime): progress is
\* min(elapsed / duration, 1) and the easing is 1 - (1 - progress)^3
currentValue(a, currentTime) ==
    LET elapsed == Min2(currentTime - a.startTime, a.duration)
    IN  a.startValue
          + (a.difference * (Cube(a.duration) - Cube(a.duration - elapsed)))
                \div Cube(a.duration)

Running(a, currentTime) == currentTime - a.startTime < a.duration

\* handleSubmit of a valid form: progressManager.reset(), then
\* generateStarChart up to its await: animateToProgress(25, 500)
ProgressSubmit ==
    /\ chart.pc \in {"idle", "done"}
    /\ chart.n < MaxCharts
    /\ currentProgress' = setProgress(0)
    /\ animations' = Append(animations, Animation(setProgress(0), 25, 5))
    /\ chart' = [pc |-> "fetching", completing |-> FALSE, since |-> clock,
                 n |-> chart.n + 1]
    /\ UNCHANGED <<pageVars, credVars, clock, themeVars, timerVars>>

\* the call is answered: on success animateToProgress(100, 300) and the
\* 500 ms wait, on failure the error is shown
ProgressResponse(ok) ==
    /\ chart.pc = "fetching"
    /\ IF ok
       THEN /\ animations' = Append(animations, Animation(currentProgress, 100, 3))
            /\ chart' = [chart EXCEPT !.pc = "waiting", !.completing = TRUE,
                                      !.since = clock]
       ELSE /\ chart' = [chart EXCEPT !.pc = "done"]
            /\ UNCHANGED animations
    /\ UNCHANGED <<pageVars, credVars, clock, currentProgress, themeVars,
                   timerVars>>

\* the 500 ms timer fires: displayResults
ProgressDisplayed ==
    /\ chart.pc = "waiting"
    /\ clock >= chart.since + 5
    /\ chart' = [chart EXCEPT !.pc = "done"]
    /\ UNCHANGED <<pageVars, credVars, clock, currentProgress, animations,
                   themeVars, timerVars>>

\* retrySearch: progressManager.reset()
ProgressReset ==
    /\ chart.pc = "done"
    /\ currentProgress' = setProgress(0)
    /\ chart' = [chart EXCEPT !.pc = "idle", !.completing = FALSE]
    /\ UNCHANGED <<pageVars, credVars, clock, animations, themeVars,
                   timerVars>>

\* one animation frame: every pending animate callback runs, in the order
\* in which the callbacks were requested, and requests itself again unless
\* its animation is over
AnimationFrame ==
    /\ clock < MaxFrames
    /\ clock' = clock + 1
    /\ currentProgress' =
           IF animations = <<>> THEN currentProgress
           ELSE setProgress(currentValue(animations[Len(animations)],
                                         clock + 1))
    /\ animations' = SelectSeq(animations, LAMBDA a : Running(a, clock + 1))
    /\ UNCHANGED <<pageVars, credVars, chart, themeVars, timerVars>>

NextProgress ==
    \/ ProgressSubmit
    \/ \E ok \in BOOLEAN : ProgressResponse(ok)
    \/ ProgressDisplayed
    \/ ProgressReset
    \/ AnimationFrame

InitProgressOnly ==
    /\ InitCredentialsOnly

SpecProgress == InitProgressOnly /\ [][NextProgress]_vars

\* C27: after a successful response has called animateToProgress(100, 300)
\* the progress value ends at 100 once the animations are over, and stays
\* there until the next reset; currentProgress stays within 0..100.
C27_ProgressEndsAtFull ==
    /\ currentProgress \in 0..Full
    /\ (chart.completing /\ animations = <<>>) => currentProgress = Full

\* ------------------------------------------------------------------------
\* ThemeManager: the stored theme, the system scheme and data-theme
\* ------------------------------------------------------------------------
StoredThemes == {NoItems, [theme |-> "light"], [theme |-> "dark"]}

\* getStoredTheme(): null when nothing is stored
getStoredTheme ==
    IF "theme" \in DOMAIN storage THEN storage["theme"] ELSE Null

\* getSystemTheme()
getSystemTheme == IF systemScheme = "light" THEN "light" ELSE "dark"

OtherTheme(theme) == IF theme = "light" THEN "dark" ELSE "light"

ThemeEvent(event, fields) ==
    [event |-> event, before |-> dataTheme,
     n |-> IF themeLog = None THEN 1 ELSE themeLog.n + 1] @@ fields @@
    (IF themeLog = None THEN [storedAtInit |-> FALSE, toggled |-> FALSE]
     ELSE [storedAtInit |-> themeLog.storedAtInit,
           toggled |-> themeLog.toggled])

MaxThemeEvents == 6

ThemeEvents == IF themeLog = None THEN 0 ELSE themeLog.n

InitThemeOnly ==
    /\ variant = "modern"
    /\ apiKey = ""
    /\ apiSecret = ""
    /\ shown = AllHidden
    /\ btnDisabled = FALSE
    /\ currentRequest = None
    /\ toast = ""
    /\ errorMessage = Text("")
    /\ displayed = None
    /\ inflight = <<>>
    /\ netCount = 0
    /\ lastCall = None
    /\ submits = 0
    /\ lastSubmit = None
    /\ lastDone = None
    /\ InitCache
    /\ vForm = None
    /\ vResult = None
    /\ storage \in StoredThemes
    /\ inputs = [apiKey |-> <<>>, apiSecret |-> <<>>]
    /\ lastSaved = None
    /\ credOp = None
    /\ clock = 0
    /\ InitProgress
    /\ InitTheme
    /\ InitTimers

\* setTheme(theme), on the two variables it writes
setTheme(theme) ==
    /\ dataTheme' = theme
    /\ storage' = setItem(storage, "theme", theme)

\* new ThemeManager() at page load: init() applies the stored theme or the
\* system's and registers the listener
ThemeManagerInit ==
    /\ ThemeEvents < MaxThemeEvents
    /\ setTheme(IF getStoredTheme # Null THEN getStoredTheme
                ELSE getSystemTheme)
    /\ themeLog' = [storedAtInit |-> getStoredTheme # Null,
                    toggled |-> FALSE] @@ ThemeEvent("init", <<>>)
    /\ UNCHANGED <<pageVars, inputs, lastSaved, credOp, clock, progressVars,
                   systemScheme, timerVars>>

\* the system's colour scheme changes; the listener registered by init()
\* runs when a ThemeManager exists
SystemSchemeChange ==
    /\ ThemeEvents < MaxThemeEvents
    /\ systemScheme' = OtherTheme(systemScheme)
    /\ IF themeLog # None /\ getStoredTheme = Null
       THEN setTheme(OtherTheme(systemScheme))
       ELSE UNCHANGED <<dataTheme, storage>>
    /\ themeLog' = IF themeLog = None THEN None
                   ELSE ThemeEvent("change", <<>>)
    /\ UNCHANGED <<pageVars, inputs, lastSaved, credOp, clock, progressVars,
                   timerVars>>

\* toggleTheme(): the click on #themeToggle
toggleTheme ==
    /\ themeLog # None
    /\ ThemeEvents < MaxThemeEvents
    /\ setTheme(IF dataTheme = "light" THEN "dark" ELSE "light")
    /\ themeLog' = [toggled |-> TRUE] @@ ThemeEvent("toggle", <<>>)
    /\ UNCHANGED <<pageVars, inputs, lastSaved, credOp, clock, progressVars,
                   systemScheme, timerVars>>

NextTheme ==
    \/ ThemeManagerInit
    \/ SystemSchemeChange
    \/ toggleTheme

SpecTheme == InitThemeOnly /\ [][NextTheme]_vars

AfterSchemeChange == themeLog # None /\ themeLog.event = "change"

\* C28: when no theme was stored at the construction of the ThemeManager
\* and the user has not toggled, a system colour-scheme change sets
\* data-theme to the system's scheme; once the user has toggled, a system
\* change leaves data-theme as it was.
C28_SystemChangeFollowedUntilToggle ==
    /\ (AfterSchemeChange /\ ~themeLog.storedAtInit /\ ~themeLog.toggled)
           => dataTheme = getSystemTheme
    /\ (AfterSchemeChange /\ themeLog.toggled)
           => dataTheme = themeLog.before

\* ------------------------------------------------------------------------
\* debounce(func, wait, immediate) and throttle(func, limit) under a clock.
\* A timer runs its callback when its delay has elapsed: time does not move
\* on while a timer is due, and a call made at the very instant a timer is
\* due may be handled before or after the timer's callback.
\* ------------------------------------------------------------------------
MaxClock == 6

MaxCalls == 3

wait == 2

limit == 2

CallArgs == {"a", "b"}

InitPageIdle ==
    /\ InitMachine
    /\ variant = "modern"
    /\ apiKey = ""
    /\ InitCache
    /\ vForm = None
    /\ vResult = None

CallEvent(args) == [ev |-> "call", at |-> clock, args |-> args]

InvokeEvent(args) == [ev |-> "invoke", at |-> clock, args |-> args]

CallsAt == {i \in 1..Len(log) : log[i].ev = "call"}

InvokesAt == {i \in 1..Len(log) : log[i].ev = "invoke"}

\* setTimeout(later, wait) as the value of the timeout variable
Timer(due, args) == [id |-> "timer", due |-> due, args |-> args]

Pending(t) == t.id = "timer"

InitDebounce ==
    /\ InitPageIdle
    /\ InitCredentials
    /\ clock = 0
    /\ InitProgress
    /\ InitTheme
    /\ systemScheme = "light"
    /\ immediate \in BOOLEAN
    /\ timeout = [id |-> Undefined]
    /\ inThrottle = FALSE
    /\ throttleTimer = None
    /\ log = <<>>

\* the debounced function leaving a pending timer to run at its old time
executedFunction_NoRestart(args) ==
    /\ Cardinality(CallsAt) < MaxCalls
    /\ LET callNow == immediate /\ ~Pending(timeout)
       IN  /\ timeout' = IF Pending(timeout)
                         THEN Timer(timeout.due, args)
                         ELSE Timer(clock + wait, args)
           /\ log' = log \o <<CallEvent(args)>>
                         \o (IF callNow THEN <<InvokeEvent(args)>> ELSE <<>>)
    /\ UNCHANGED <<pageVars, credVars, clock, progressVars, themeVars,
                   immediate, inThrottle, throttleTimer>>

\* executedFunction(...args): the function returned by debounce
executedFunction(args) ==
    /\ Cardinality(CallsAt) < MaxCalls
    /\ LET callNow == immediate /\ ~Pending(timeout)
       IN  /\ timeout' = Timer(clock + wait, args)
           /\ log' = log \o <<CallEvent(args)>>
                         \o (IF callNow THEN <<InvokeEvent(args)>> ELSE <<>>)
    /\ UNCHANGED <<pageVars, credVars, clock, progressVars, themeVars,
                   immediate, inThrottle, throttleTimer>>

\* later(): the callback of the pending timer
later ==
    /\ Pending(timeout)
    /\ clock >= timeout.due
    /\ timeout' = [id |-> Null]
    /\ log' = IF ~immediate THEN Append(log, InvokeEvent(timeout.args))
              ELSE log
    /\ UNCHANGED <<pageVars, credVars, clock, progressVars, themeVars,
                   immediate, inThrottle, throttleTimer>>

\* one time unit passes, unless a timer is due
TimePasses ==
    /\ clock < MaxClock
    /\ ~(Pending(timeout) /\ timeout.due <= clock)
    /\ ~(throttleTimer # None /\ throttleTimer.due <= clock)
    /\ clock' = clock + 1
    /\ UNCHANGED <<pageVars, credVars, progressVars, themeVars, timerVars>>

NextDebounce ==
    \/ \E args \in CallArgs : executedFunction(args)
    \/ later
    \/ TimePasses

SpecDebounce == InitDebounce /\ [][NextDebounce]_vars

\* the call before position i, and the call after it (0 when there is none)
CallBefore(i) ==
    IF \E k \in CallsAt : k < i
    THEN CHOOSE k \in CallsAt : k < i /\ \A m \in CallsAt : m < i => m <= k
    ELSE 0

CallAfter(i) ==
    IF \E k \in CallsAt : k > i
    THEN CHOOSE k \in CallsAt : k > i /\ \A m \in CallsAt : m > i => k <= m
    ELSE 0

InvokesBetween(i, j) == {k \in InvokesAt : i < k /\ (j = 0 \/ k < j)}

\* the burst that call i belongs to has ended with call i, and more than
\* wait has passed since
EndsBurst(i) ==
    IF CallAfter(i) = 0 THEN clock > log[i].at + wait
    ELSE log[CallAfter(i)].at > log[i].at + wait

\* call i starts a burst: more than wait has passed since the call before
StartsBurst(i) ==
    CallBefore(i) = 0 \/ log[CallBefore(i)].at + wait < log[i].at

InsideBurst(i) ==
    CallBefore(i) # 0 /\ log[i].at < log[CallBefore(i)].at + wait

TrailingEdge ==
    /\ \A j \in InvokesAt :
           /\ CallBefore(j) # 0
           /\ log[j].args = log[CallBefore(j)].args
           /\ log[j].at = log[CallBefore(j)].at + wait
           /\ InvokesBetween(CallBefore(j), j) = {}
    /\ \A i \in CallsAt :
           /\ EndsBurst(i) => Cardinality(InvokesBetween(i, CallAfter(i))) = 1
           /\ (CallAfter(i) # 0 /\ InsideBurst(CallAfter(i)))
                  => InvokesBetween(i, CallAfter(i)) = {}

LeadingEdge ==
    /\ \A j \in InvokesAt :
           /\ j - 1 \in CallsAt
           /\ log[j].args = log[j - 1].args
           /\ log[j].at = log[j - 1].at
           /\ ~InsideBurst(j - 1)
    /\ \A i \in CallsAt :
           /\ StartsBurst(i) => i + 1 \in InvokesAt
           /\ InsideBurst(i) => i + 1 \notin InvokesAt

\* C29: without immediate, a burst of calls each less than wait after the
\* previous one invokes func exactly once, wait after its last call and with
\* that call's arguments; with immediate, func is invoked on the first call
\* of a burst only, with that call's arguments, and not at the end.
C29_OneInvocationPerBurst ==
    IF immediate THEN LeadingEdge ELSE TrailingEdge

C29_Witness ==
    /\ ~immediate
    /\ log = <<[ev |-> "call", at |-> 0, args |-> "a"],
               [ev |-> "call", at |-> 1, args |-> "b"],
               [ev |-> "invoke", at |-> 3, args |-> "b"]>>

\* ------------------------------------------------------------------------
\* throttle(func, limit)
\* ------------------------------------------------------------------------
\* the throttled function invoking func without raising inThrottle
throttled_NoFlag(args) ==
    /\ Cardinality(CallsAt) < MaxCalls
    /\ IF ~inThrottle
       THEN /\ log' = log \o <<CallEvent(args), InvokeEvent(args)>>
            /\ UNCHANGED <<inThrottle, throttleTimer>>
       ELSE /\ log' = Append(log, CallEvent(args))
            /\ UNCHANGED <<inThrottle, throttleTimer>>
    /\ UNCHANGED <<pageVars, credVars, clock, progressVars, themeVars,
                   immediate, timeout>>

\* the function returned by throttle
throttled(args) ==
    /\ Cardinality(CallsAt) < MaxCalls
    /\ IF ~inThrottle
       THEN /\ log' = log \o <<CallEvent(args), InvokeEvent(args)>>
            /\ inThrottle' = TRUE
            /\ throttleTimer' = [due |-> clock + limit]
       ELSE /\ log' = Append(log, CallEvent(args))
            /\ UNCHANGED <<inThrottle, throttleTimer>>
    /\ UNCHANGED <<pageVars, credVars, clock, progressVars, themeVars,
                   immediate, timeout>>

\* the callback of the timer set by the throttled function
throttleExpires ==
    /\ throttleTimer # None
    /\ clock >= throttleTimer.due
    /\ inThrottle' = FALSE
    /\ throttleTimer' = None
    /\ UNCHANGED <<pageVars, credVars, clock, progressVars, themeVars,
                   immediate, timeout, log>>

InitThrottle ==
    /\ InitPageIdle
    /\ InitAux

NextThrottle ==
    \/ \E args \in CallArgs : throttled(args)
    \/ throttleExpires
    \/ TimePasses

SpecThrottle == InitThrottle /\ [][NextThrottle]_vars

InvokeBefore(i) ==
    IF \E k \in InvokesAt : k < i
    THEN CHOOSE k \in InvokesAt : k < i /\ \A m \in InvokesAt : m < i => m <= k
    ELSE 0

\* C30: the first call invokes func at once; a call made less than limit
\* after the last invoking call is dropped and never invoked later; a call
\* made more than limit after it invokes func again; so two invocations are
\* never less than limit apart.
C30_AtMostOncePerLimit ==
    /\ \A j \in InvokesAt :
           /\ j - 1 \in CallsAt
           /\ log[j].args = log[j - 1].args
           /\ log[j].at = log[j - 1].at
    /\ \A i \in CallsAt :
           /\ InvokeBefore(i) = 0 => i + 1 \in InvokesAt
           /\ (InvokeBefore(i) # 0
                  /\ log[i].at < log[InvokeBefore(i)].at + limit)
                  => i + 1 \notin InvokesAt
           /\ (InvokeBefore(i) # 0
                  /\ log[i].at > log[InvokeBefore(i)].at + limit)
                  => i + 1 \in InvokesAt
    /\ \A j \in InvokesAt, k \in InvokesAt :
           j < k => log[k].at >= log[j].at + limit

C30_Witness ==
    log = <<[ev |-> "call", at |-> 0, args |-> "a"],
            [ev |-> "invoke", at |-> 0, args |-> "a"],
            [ev |-> "call", at |-> 1, args |-> "b"],
            [ev |-> "call", at |-> 3, args |-> "a"],
            [ev |-> "invoke", at |-> 3, args |-> "a"]>>

====
